---- MODULE Spec2Model ----
(***************************************************************************)
(* Service launch orchestration of the forum container.                    *)
(*                                                                         *)
(* Three entrypoint scripts are modelled, one of which runs in a given     *)
(* container (variable script):                                            *)
(*   "wrapper"    src/unnamed/part_000 (main + restart_wrapper)            *)
(*   "loop"       src/install/docker/entrypoint.sh (while-true loop)       *)
(*   "production" src/docker/production-entrypoint.sh (8-stage pipeline,   *)
(*                handoff by exec)                                         *)
(* All three run under bash errexit (set -e): a simple command that        *)
(* returns non-zero outside a condition context ends the shell with that   *)
(* status.                                                                 *)
(***************************************************************************)
EXTENDS Integers, Sequences, FiniteSets, TLC

\* ---------------------------------------------------------------- bounds
\* number of managed-process exits followed in one supervised run
MaxExits == 3

\* ------------------------------------------------------ program constants
\* exit codes the managed process may return (0 and 200 are the control
\* codes of the case statement, 1 and 17 are ordinary failures)
ExitCodes == {0, 1, 17, 200}

\* status the script has while it is still running
Running == -1

\* number of container starts (launches of production-entrypoint.sh) followed
MaxLaunches == 2

\* generations of the configuration file that are followed
MaxGenerations == 2

\* documents in the JSON file given to import-json.js
MaxDocs == 2

\* documents the collection holds before import-json.js runs
MaxStored == 2

\* calls of Meta.restart that are followed
MaxRestartCalls == 2

\* check_database_connectivity: `local max_attempts=60`
max_attempts == 60

\* contents the dependency manifest (install/package.json, else
\* package.json) can have; "none" when neither file exists
Manifests == {"none", "m1", "m2"}

\* contents of $CONFIG_DIR/install_hash.md5; "" when the file is absent
Records == {"", "h1", "h2"}

\* validate_environment: `local required_vars=(...)`, in this order
required_vars ==
    <<"NODEBB_DB_HOST", "NODEBB_DB_USER", "NODEBB_DB_PASSWORD", "NODEBB_DB_NAME">>

\* pre_start_validation: `local critical_dirs=(...)`
critical_dirs == <<"public/uploads", "logs", "build">>

\* what pre_start_validation can find a critical directory to be:
\* "missing" is created by mkdir -p, "uncreatable" is missing and mkdir fails
DirStates == {"writable", "unwritable", "missing", "uncreatable"}

\* the stages of production-entrypoint.sh, in script order
Stages ==
    <<"environment", "directories", "probe", "packages", "config", "build",
      "patch", "preflight">>

\* src/meta/index.js: the codes the "exit" listener can be given; Null
\* stands for null (the child was ended by a signal), NoCode for no exit
\* event so far
Null == -1
NoCode == -2
ChildCodes == {0, 1, 254, Null}

\* the scripts that hand the shell over to the managed process with exec
Handoff == {"production", "documentdb"}

\* attempts at which the database may first answer (1, an early one, the
\* last one); at every other attempt nc fails
ReadyAttempts == {1, 3, max_attempts}

VARIABLES
    script,      \* which entrypoint this container runs
    pc,          \* position of the shell in the script
    status,      \* exit status of the shell, Running while it is alive
    EXIT_CODE,   \* the shell variable EXIT_CODE, -1 while unset
    running,     \* number of managed-process instances alive
    launches,    \* number of times `node app.js` was started
    history,     \* exit codes returned by the managed process, in order
    rebuilds,    \* number of `node ./nodebb build` runs inside the loop
    rebuild_ok   \* outcomes of those runs, in order


VARIABLES
    launch_no,         \* number of the current container start
    START_BUILD,       \* environment variable START_BUILD ("" when unset)
    manifest,          \* content of the dependency manifest
    nodebb_x,          \* ./nodebb exists and is executable
    install_hash,      \* content of $CONFIG_DIR/install_hash.md5
    cache_buster,      \* build/cache-buster exists
    config_json,       \* /usr/src/app/config.json exists
    attempt,           \* check_database_connectivity: local attempt
    probes,            \* number of `nc -z` calls made in this launch
    sleeps,            \* number of `sleep 3` calls made in this launch
    reached_at,        \* attempt at which nc succeeded, 0 if it has not
    package_hash,      \* build_forum: local package_hash
    stored_hash,       \* build_forum: local stored_hash
    decision,          \* branch build_forum took, "none" before it ran
    upgrade_runs,      \* `node ./nodebb upgrade` invocations in this launch
    build_runs,        \* `node ./nodebb build` invocations in this launch
    outcome,           \* how the invoked routine ended, "none" if none ran
    build_log,         \* what build_forum printed and ran, in order
    validation_errors, \* pre_start_validation: local validation_errors
    done,              \* stages completed in this launch, in order
    failed,            \* stage that aborted this launch, "none" otherwise
    prev_manifest,     \* manifest of the previous launch
    prev_built,        \* the previous launch completed its build stage
    env_unset,         \* required variables found empty by validate_environment
    missing_var,       \* variable named in its error message, "none" if none
    admin,             \* lines of build/public/admin.min.js, <<>> if no such file
    client,            \* lines of build/public/client.min.js, <<>> if no such file
    admin_backup,      \* lines of admin.min.js.backup
    client_backup,     \* lines of client.min.js.backup
    patch_error,       \* why fix_jquery_assets returned 1 in this launch
    \* ---- functions checked on their own
    pf_in,             \* what the checks of pre_start_validation find
    pf_out,            \* what pre_start_validation makes of it
    cfg_env,           \* entrypoint variant and the environment it is given
    cfg_file,          \* content of $CONFIG, "none" before it is written
    cfg_prev,          \* content of $CONFIG before the last generation
    cfg_runs,          \* number of generations so far
    clock,             \* `date +%s` at the last generation
    \* ---- src/meta/index.js, restart()
    hasError,          \* the flag of that name
    child,             \* awsProcess: "none", "pending", "failed", "exited"
    child_code,        \* code given to the exit listener, NoCode before
    timer5,            \* the 5000 ms timer: "none", "armed", "fired"
    fallback_calls,    \* calls of fallbackRestart (each arms a 1000 ms timer)
    \* ---- termination signals
    trap_installed,    \* `trap cleanup SIGTERM SIGINT SIGQUIT` has been run
    signalled,         \* the shell was sent a termination signal in this launch
    cleanup_ran        \* the cleanup function has run in this launch

VARIABLES
    \* ---- src/scripts/import-json.js and src/scripts/list-collections.js
    tool,              \* which of the two scripts runs, "none" otherwise
    tool_pc,           \* position in main() / listCollections()
    args,              \* command line: file, mode ("" if omitted), dry-run
    options,           \* what validateArgs returned, NoOptions before
    data,              \* documents loaded from the file
    coll,              \* documents of the target collection, in natural order
    coll0,             \* the collection before the script ran
    db_client,         \* db.client: "none", "open", "closed"
    opened,            \* db.init has resolved at some point
    writes,            \* insertOne/replaceOne/deleteMany calls issued
    thrown,            \* the step whose exception reached the catch block
    exit_code          \* code given to process.exit, NoCode while running

VARIABLES
    \* ---- check_directory applied to the directories of one launch
    ck_script,         \* entrypoint whose check_directory calls are followed
    ck_dirs,           \* per call: the directory as found, and what mkdir
                       \* and the chown/chmod repair can do to it
    ck_fs,             \* per call: the directory now
    ck_repairs,        \* per call: repairs attempted
    ck_i,              \* the next call
    ck_stage,          \* "directories" or, once every call returned, "next"
    ck_status          \* exit status of the shell, Running while it is alive

VARIABLES
    \* ---- src/meta/index.js, Meta.restart over pubsub
    ps_host,           \* os.hostname() of each process
    ps_primary,        \* nconf.get("isPrimary") of each process
    ps_inbox,          \* meta:restart messages on their way to each process
    ps_published,      \* the messages published so far, with their publisher
    ps_calls,          \* calls of Meta.restart so far
    ps_local,          \* per process: its own calls of Meta.restart
    ps_differing,      \* per process: messages handled that name another host
    ps_restarts        \* per process: calls of restart()

supVars == <<EXIT_CODE, running, launches, history, rebuilds, rebuild_ok>>
fsVars == <<manifest, nodebb_x, install_hash, cache_buster, config_json>>
probeVars == <<attempt, probes, sleeps, reached_at>>
buildVars == <<package_hash, stored_hash, decision, upgrade_runs, build_runs, outcome,
              build_log>>
launchVars == <<launch_no, START_BUILD, prev_manifest, prev_built>>
envVars == <<env_unset, missing_var>>
assetVars == <<admin, client, admin_backup, client_backup, patch_error>>
prodVars == <<fsVars, probeVars, buildVars, launchVars, envVars, assetVars,
              validation_errors, done, failed>>
pfVars == <<pf_in, pf_out>>
cfgVars == <<cfg_env, cfg_file, cfg_prev, cfg_runs, clock>>
dbVars == <<tool, tool_pc, args, options, data, coll, coll0, db_client,
            opened, writes, thrown, exit_code>>
dirVars == <<ck_script, ck_dirs, ck_fs, ck_repairs, ck_i, ck_stage, ck_status>>
psVars == <<ps_host, ps_primary, ps_inbox, ps_published, ps_calls, ps_local,
            ps_differing, ps_restarts>>
fnVars == <<pfVars, cfgVars, dbVars, dirVars, psVars>>
metaVars == <<hasError, child, child_code, timer5, fallback_calls>>
sigVars == <<trap_installed, signalled, cleanup_ran>>
vars == <<script, pc, status, supVars, prodVars, fnVars, metaVars, sigVars>>

\* ------------------------------------------------------------- helpers

Last(s) == s[Len(s)]

\* number of exit codes c in h
Count(h, c) == Cardinality({i \in 1..Len(h) : h[i] = c})

\* s is an initial segment of t
IsPrefix(s, t) == Len(s) <= Len(t) /\ \A i \in 1..Len(s) : s[i] = t[i]

\* variant: the script without `set -e`
ErrExit_off == FALSE

\* set -e (part_000:1, entrypoint.sh:1): is the shell in errexit mode
ErrExit == TRUE

\* `case $EXIT_CODE in 0) .. 200) .. *) ..` of restart_wrapper
Classify(c) ==
    IF c = 0 THEN "CleanRestart"
    ELSE IF c = 200 THEN "RebuildRestart"
    ELSE "Fatal"

\* variant: the failure is flattened to 1 (`node app.js || exit 1`)
ErrExitStatus_flat(c) == 1

\* status with which errexit ends the shell: that of the failed command
ErrExitStatus(c) == c

\* ============================================================ part_000
\* main(): create_config, setup_plugins, build_nodebb.  Every command is a
\* simple command under errexit, so the first failure ends the script.
main_setup ==
    /\ script = "wrapper"
    /\ pc = "setup"
    /\ \E ok \in BOOLEAN :
          IF ok
          THEN /\ pc' = "launch"
               /\ status' = status
          ELSE /\ pc' = "exited"
               /\ status' = ErrExitStatus(1)
    /\ UNCHANGED <<script, fnVars, metaVars, sigVars, supVars, prodVars>>

\* variant: `node app.js &`, the shell does not wait and $? is 0
restart_wrapper_launch_bg ==
    /\ script = "wrapper"
    /\ pc = "launch"
    /\ running < 3
    /\ running' = running + 1
    /\ launches' = launches + 1
    /\ EXIT_CODE' = 0
    /\ pc' = "case"
    /\ UNCHANGED <<script, fnVars, metaVars, sigVars, status, history, rebuilds, rebuild_ok, prodVars>>

\* restart_wrapper, lines 57-58: `node app.js` is started in the foreground
restart_wrapper_launch ==
    /\ script = "wrapper"
    /\ pc = "launch"
    /\ running' = running + 1
    /\ launches' = launches + 1
    /\ pc' = "wait"
    /\ UNCHANGED <<script, fnVars, metaVars, sigVars, status, EXIT_CODE, history, rebuilds, rebuild_ok, prodVars>>

\* restart_wrapper, lines 58-59: `node app.js` returns c.  Under errexit a
\* non-zero c ends the shell at line 58; otherwise EXIT_CODE=$? is run.
restart_wrapper_exit ==
    /\ script = "wrapper"
    /\ pc = "wait"
    /\ running > 0
    /\ Len(history) < MaxExits
    /\ \E c \in ExitCodes :
          /\ history' = Append(history, c)
          /\ running' = running - 1
          /\ IF ErrExit /\ c # 0
             THEN /\ pc' = "exited"
                  /\ status' = ErrExitStatus(c)
                  /\ EXIT_CODE' = EXIT_CODE
             ELSE /\ pc' = "case"
                  /\ status' = status
                  /\ EXIT_CODE' = c
    /\ UNCHANGED <<script, fnVars, metaVars, sigVars, launches, rebuilds, rebuild_ok, prodVars>>

\* restart_wrapper, lines 62-80: the case statement
restart_wrapper_case ==
    /\ script = "wrapper"
    /\ pc = "case"
    /\ \E ok \in BOOLEAN :
          CASE Classify(EXIT_CODE) = "CleanRestart" ->
                  /\ pc' = "sleep"
                  /\ UNCHANGED <<status, rebuilds, rebuild_ok>>
            [] Classify(EXIT_CODE) = "RebuildRestart" ->
                  \* `if node ./nodebb build; then .. else ..`: a condition
                  \* context, the failure is logged and the loop goes on
                  /\ rebuilds' = rebuilds + 1
                  /\ rebuild_ok' = Append(rebuild_ok, ok)
                  /\ pc' = "sleep"
                  /\ status' = status
            [] OTHER ->
                  /\ pc' = "exited"
                  /\ status' = EXIT_CODE
                  /\ UNCHANGED <<rebuilds, rebuild_ok>>
    /\ UNCHANGED <<script, fnVars, metaVars, sigVars, EXIT_CODE, running, launches, history, prodVars>>

\* restart_wrapper, lines 65 and 74: sleep 2, then the next iteration
restart_wrapper_sleep ==
    /\ script = "wrapper"
    /\ pc = "sleep"
    /\ pc' = "launch"
    /\ UNCHANGED <<script, fnVars, metaVars, sigVars, status, supVars, prodVars>>

\* ================================================ install/docker/entrypoint.sh
\* lines 3-33: config, cp, npm install, four activations, all under errexit
entrypoint_setup ==
    /\ script = "loop"
    /\ pc = "setup"
    /\ \E ok \in BOOLEAN :
          IF ok
          THEN /\ pc' = "build"
               /\ status' = status
          ELSE /\ pc' = "exited"
               /\ status' = ErrExitStatus(1)
    /\ UNCHANGED <<script, fnVars, metaVars, sigVars, supVars, prodVars>>

\* line 37: `node ./nodebb build` at the top of every iteration; a simple
\* command under errexit, its failure ends the script
loop_build ==
    /\ script = "loop"
    /\ pc = "build"
    /\ \E ok \in BOOLEAN :
          /\ rebuilds' = rebuilds + 1
          /\ rebuild_ok' = Append(rebuild_ok, ok)
          /\ IF ErrExit /\ ~ok
             THEN /\ pc' = "exited"
                  /\ status' = ErrExitStatus(1)
             ELSE /\ pc' = "launch"
                  /\ status' = status
    /\ UNCHANGED <<script, fnVars, metaVars, sigVars, EXIT_CODE, running, launches, history, prodVars>>

\* line 39: `node app.js` is started in the foreground
loop_launch ==
    /\ script = "loop"
    /\ pc = "launch"
    /\ running' = running + 1
    /\ launches' = launches + 1
    /\ pc' = "wait"
    /\ UNCHANGED <<script, fnVars, metaVars, sigVars, status, EXIT_CODE, history, rebuilds, rebuild_ok, prodVars>>

\* lines 39-40: `node app.js` returns c; errexit ends the shell on c # 0
loop_exit ==
    /\ script = "loop"
    /\ pc = "wait"
    /\ running > 0
    /\ Len(history) < MaxExits
    /\ \E c \in ExitCodes :
          /\ history' = Append(history, c)
          /\ running' = running - 1
          /\ IF ErrExit /\ c # 0
             THEN /\ pc' = "exited"
                  /\ status' = ErrExitStatus(c)
                  /\ EXIT_CODE' = EXIT_CODE
             ELSE /\ pc' = "if"
                  /\ status' = status
                  /\ EXIT_CODE' = c
    /\ UNCHANGED <<script, fnVars, metaVars, sigVars, launches, rebuilds, rebuild_ok, prodVars>>

\* lines 42-48: `if [ $EXIT_CODE -eq 0 ]` .. sleep 2 .. else exit $EXIT_CODE
loop_if ==
    /\ script = "loop"
    /\ pc = "if"
    /\ IF EXIT_CODE = 0
       THEN /\ pc' = "build"
            /\ status' = status
       ELSE /\ pc' = "exited"
            /\ status' = EXIT_CODE
    /\ UNCHANGED <<script, fnVars, metaVars, sigVars, supVars, prodVars>>


\* ================================================ docker/production-entrypoint.sh
\* `md5sum <file> | head -c 32`: the digest of the manifest content
md5sum(m) ==
    CASE m = "m1" -> "h1"
      [] m = "m2" -> "h2"
      [] OTHER -> "h0"

\* build_forum, lines 290-295: package_hash stays "" when neither
\* install/package.json nor package.json exists
PackageHash(m) == IF m = "none" THEN "" ELSE md5sum(m)

\* set_defaults, line 27: START_BUILD="${START_BUILD:-true}"
set_defaults(sb) == IF sb = "" THEN "true" ELSE sb

\* variant: an absent record is taken for "nothing to compare with"
BuildDecision_absent_matches(ph, sh, sb) ==
    IF ph # "" /\ sh # "" /\ ph # sh THEN "Upgrade"
    ELSE IF sb = "true" THEN "Build"
    ELSE "Skip"

\* variant: the comparison of line 302 inverted (`=` for `!=`)
BuildDecision_inverted(ph, sh, sb) ==
    IF ph # "" /\ ph = sh THEN "Upgrade"
    ELSE IF sb = "true" THEN "Build"
    ELSE "Skip"

\* build_forum, lines 302, 321, 338: which branch is taken
BuildDecision(ph, sh, sb) ==
    IF ph # "" /\ ph # sh THEN "Upgrade"
    ELSE IF sb = "true" THEN "Build"
    ELSE "Skip"

\* variant: without the else branch of lines 310-316, a ./nodebb that is
\* not executable is an error in the Upgrade branch too
RoutineFor_no_fallback(d, x) ==
    CASE d = "Upgrade" -> IF x THEN "upgrade" ELSE "missing"
      [] d = "Build" -> IF x THEN "build" ELSE "missing"
      [] OTHER -> "none"

\* build_forum, lines 305-316 and 324-334: what the branch invokes.
\* "missing" is the error exit of the Build branch when ./nodebb is not
\* executable.
RoutineFor(d, x) ==
    CASE d = "Upgrade" -> IF x THEN "upgrade" ELSE "build"
      [] d = "Build" -> IF x THEN "build" ELSE "missing"
      [] OTHER -> "none"

\* build_forum, lines 303-340: the messages echoed and the commands run, in
\* the order of the script, for decision d, routine r and its ending out
BuildLog(d, r, out) ==
    CASE d = "Upgrade" ->
            <<"echo: changes detected, running upgrade">>
            \o (CASE r = "upgrade" -> <<"run: upgrade">>
                  [] r = "build" ->
                        <<"echo: ./nodebb not executable, running build instead",
                          "run: build">>
                  [] OTHER -> <<>>)
            \o (IF r \in {"upgrade", "build"} /\ out = "ok"
                THEN <<"write: install_hash.md5", "echo: upgrade completed">>
                ELSE <<"echo: failed">>)
      [] d = "Build" ->
            <<"echo: build before start is enabled">>
            \o (IF r = "build"
                THEN <<"echo: executing", "run: build">>
                     \o (IF out = "ok" THEN <<"echo: build completed">>
                         ELSE <<"echo: failed">>)
                ELSE <<"echo: ./nodebb not found or not executable">>)
      [] OTHER -> <<"echo: skipping build">>

\* exit status of `timeout 600 node ./nodebb ...`
TimeoutStatus(out) ==
    CASE out = "ok" -> 0
      [] out = "timeout" -> 124
      [] OTHER -> 1

\* variant: only status 1 is taken for a failure, a timeout (124) passes
OrFails_only1(st) == st = 1

\* `cmd || { echo ...; exit 1; }`: the right-hand side runs on any
\* non-zero status
OrFails(st) == st # 0

\* variant: the hash is never saved
SavedHash_never(d, ph, old) == old

\* build_forum, line 318: only the Upgrade branch saves the hash
SavedHash(d, ph, old) == IF d = "Upgrade" THEN ph ELSE old

\* results `nc -z` can give at attempt a
NcOutcomes(a) == IF a \in ReadyAttempts THEN BOOLEAN ELSE {FALSE}

\* variant: `-lt` for `-le`
ProbeLoopCond_lt(a, max) == a < max

\* check_database_connectivity, line 104: `[ $attempt -le $max_attempts ]`
ProbeLoopCond(a, max) == a <= max

\* variant: the count is not looked at
PreflightPass_always(n) == TRUE

\* pre_start_validation, line 604: `[ $validation_errors -eq 0 ]`
PreflightPass(n) == n = 0

\* index of the first required variable that is empty or unset, 0 if none
FirstMissing(unset) ==
    IF \E i \in 1..Len(required_vars) : required_vars[i] \in unset
    THEN CHOOSE i \in 1..Len(required_vars) :
            /\ required_vars[i] \in unset
            /\ \A j \in 1..(i - 1) : required_vars[j] \notin unset
    ELSE 0

\* the launch ends at stage st with `exit 1`
Abort(st) ==
    /\ pc' = "exited"
    /\ status' = 1
    /\ failed' = st

\* stage st has completed, the script goes on to `next`
Proceed(st, next) ==
    /\ pc' = next
    /\ status' = status
    /\ failed' = failed
    /\ done' = Append(done, st)

\* variant: the directories are checked before the variables, a missing
\* variable is reported only afterwards
validate_environment_late ==
    /\ script = "production"
    /\ pc = "environment"
    /\ START_BUILD' = set_defaults(START_BUILD)
    /\ \E unset \in SUBSET {required_vars[i] : i \in 1..Len(required_vars)} :
          /\ env_unset' = unset
          /\ missing_var' = IF FirstMissing(unset) # 0
                            THEN required_vars[FirstMissing(unset)] ELSE "none"
          /\ Proceed("environment", "directories")
    /\ UNCHANGED <<supVars, script, fnVars, metaVars, sigVars, fsVars, probeVars, buildVars, assetVars,
                   launch_no, prev_manifest, prev_built, validation_errors>>

\* section 1, lines 81-82: set_defaults, then validate_environment.  unset
\* is the set of required variables that are empty or not set; the loop of
\* lines 46-52 stops at the first of them with `exit 1`.
validate_environment ==
    /\ script = "production"
    /\ pc = "environment"
    /\ START_BUILD' = set_defaults(START_BUILD)
    /\ \E unset \in SUBSET {required_vars[i] : i \in 1..Len(required_vars)} :
          /\ env_unset' = unset
          /\ IF FirstMissing(unset) # 0
             THEN /\ missing_var' = required_vars[FirstMissing(unset)]
                  /\ Abort("environment")
                  /\ done' = done
             ELSE /\ missing_var' = "none"
                  /\ Proceed("environment", "directories")
    /\ UNCHANGED <<supVars, script, fnVars, metaVars, sigVars, fsVars, probeVars, buildVars, assetVars,
                   launch_no, prev_manifest, prev_built, validation_errors>>

\* section 1, lines 83-85: the three check_directory calls (config, uploads,
\* logs): directories are created and repaired here and nowhere earlier.
\* dirs_ok says whether all three end up present and writable.
check_directory ==
    /\ script = "production"
    /\ pc = "directories"
    /\ \E dirs_ok \in BOOLEAN :
          IF dirs_ok
          THEN Proceed("directories", "probe")
          ELSE Abort("directories") /\ done' = done
    /\ attempt' = 1
    /\ UNCHANGED <<supVars, script, fnVars, metaVars, sigVars, fsVars, probes, sleeps, reached_at, buildVars,
                   launchVars, envVars, assetVars, validation_errors>>

\* variant: `sleep 3` placed before the test of nc's result, so that a
\* reachable attempt sleeps too
check_database_connectivity_sleep_first ==
    /\ script = "production"
    /\ pc = "probe"
    /\ ProbeLoopCond(attempt, max_attempts)
    /\ probes' = probes + 1
    /\ sleeps' = sleeps + 1
    /\ \E reachable \in NcOutcomes(attempt) :
          IF reachable
          THEN /\ reached_at' = attempt
               /\ Proceed("probe", "packages")
               /\ UNCHANGED attempt
          ELSE /\ attempt' = attempt + 1
               /\ UNCHANGED <<pc, status, failed, done, reached_at>>
    /\ UNCHANGED <<supVars, script, fnVars, metaVars, sigVars, fsVars, buildVars, launchVars, envVars, assetVars, validation_errors>>

\* check_database_connectivity, lines 104-113: one iteration of the loop
check_database_connectivity ==
    /\ script = "production"
    /\ pc = "probe"
    /\ ProbeLoopCond(attempt, max_attempts)
    /\ probes' = probes + 1
    /\ \E reachable \in NcOutcomes(attempt) :
          IF reachable
          THEN /\ reached_at' = attempt
               /\ Proceed("probe", "packages")
               /\ UNCHANGED <<attempt, sleeps>>
          ELSE /\ sleeps' = sleeps + 1
               /\ attempt' = attempt + 1
               /\ UNCHANGED <<pc, status, failed, done, reached_at>>
    /\ UNCHANGED <<supVars, script, fnVars, metaVars, sigVars, fsVars, buildVars, launchVars, envVars, assetVars, validation_errors>>

\* check_database_connectivity, lines 115-116: the loop condition failed
check_database_giveup ==
    /\ script = "production"
    /\ pc = "probe"
    /\ ~ProbeLoopCond(attempt, max_attempts)
    /\ Abort("probe")
    /\ UNCHANGED <<supVars, script, fnVars, metaVars, sigVars, fsVars, probeVars, buildVars, launchVars, envVars, assetVars,
                   validation_errors, done>>

\* section 3, lines 202-203: copy_or_link_files and install_dependencies;
\* an unknown PACKAGE_MANAGER or a failing install ends the launch
install_dependencies ==
    /\ script = "production"
    /\ pc = "packages"
    /\ \E pm \in {"npm", "yarn", "pnpm", "other"}, ok \in BOOLEAN :
          IF pm = "other" \/ ~ok
          THEN Abort("packages") /\ done' = done
          ELSE Proceed("packages", "config")
    /\ UNCHANGED <<supVars, script, fnVars, metaVars, sigVars, fsVars, probeVars, buildVars, launchVars, envVars, assetVars,
                   validation_errors>>

\* section 4, lines 214-276: the configuration is written, mirrored to
\* /usr/src/app/config.json and parsed; a parse failure ends the launch
create_configuration ==
    /\ script = "production"
    /\ pc = "config"
    /\ config_json' = TRUE
    /\ \E valid \in BOOLEAN :
          IF valid
          THEN Proceed("config", "build")
          ELSE Abort("config") /\ done' = done
    /\ UNCHANGED <<supVars, script, fnVars, metaVars, sigVars, manifest, nodebb_x, install_hash, cache_buster,
                   probeVars, buildVars, launchVars, envVars, assetVars, validation_errors>>

\* section 6: a file is the sequence of its lines
\* no such file (a bundle that exists has at least one line)
Absent == <<>>

\* lines of a freshly built bundle: one that does not mention jQuery and
\* one that does
AppLine == "require(['app']);"
AppJqLine == "jQuery(document).ready(app);"

\* what `node ./nodebb build` can leave as admin.min.js and client.min.js
FreshAdmin == {<<AppLine>>, <<AppJqLine>>, <<AppLine, AppJqLine>>}
FreshClient == {Absent, <<AppLine>>}

\* jquery-3.7.1.min.js as downloaded (line 389): a licence comment and one
\* line of code, each naming jQuery and each ended by a newline
Payload == <<"/*! jQuery v3.7.1 */", "!function(e,t){...jQuery...}(window);">>

\* lines 419 and 459: the first echo of the rewritten bundle
AdminHeader == "/* jQuery 3.7.1 - MUST BE FIRST */"
ClientHeader == "/* jQuery 3.7.1 for NodeBB Client - MUST BE FIRST */"

\* lines 428 and 468: the last echo before the cleaned bundle
AdminScripts == "/* NodeBB Admin Scripts */"
ClientScripts == "/* NodeBB Client Scripts */"

\* lines 419-428 and 459-468: the echo and cat commands before
\* `cat "${admin_file}.clean"`
Wrapper(header, scripts) ==
    <<header>> \o Payload
        \o << ";",
              "",
              "/* Ensure jQuery is globally available */",
              "if (typeof window !== 'undefined') {",
              "    window.jQuery = window.$ = jQuery;",
              "}",
              "",
              scripts >>

\* the lines of the model that match "jQuery\|window\.jQuery\|\$\.fn\."
MatchesJQuery(line) ==
    line \in {AdminHeader, ClientHeader, Payload[1], Payload[2],
              "/* Ensure jQuery is globally available */",
              "    window.jQuery = window.$ = jQuery;",
              AppJqLine}

\* lines 416 and 456: `grep -v PATTERN backup > clean || cp backup clean`;
\* grep returns 1 when it selects no line, and the copy is taken then
Clean(f) ==
    LET selected == SelectSeq(f, LAMBDA line : ~MatchesJQuery(line))
    IN  IF selected = <<>> THEN f ELSE selected

\* lines 413-429 and 454-469: the bundle after the rewrite
Rewrite(f, header, scripts) == Wrapper(header, scripts) \o Clean(f)

\* the bundle is one the patcher has written
IsPatched(f) == f # Absent /\ f[1] \in {AdminHeader, ClientHeader}

\* the file holds the downloaded payload
HasPayload(f) == \E i \in 1..Len(f) : f[i] = Payload[2]

\* section 5, lines 285-364: build_forum.  out is how the invoked routine
\* ends.
build_forum ==
    /\ script = "production"
    /\ pc = "build"
    /\ \E out \in {"ok", "fail", "timeout"}, marker_written \in BOOLEAN,
          marker_created \in BOOLEAN :
          LET ph == PackageHash(manifest)
              sh == install_hash
              d == BuildDecision(ph, sh, START_BUILD)
              routine == RoutineFor(d, nodebb_x)
              invoked == routine \in {"upgrade", "build"}
              st == IF invoked THEN TimeoutStatus(out) ELSE 0
              aborted == routine = "missing" \/ OrFails(st)
              \* build/cache-buster when line 356 tests it: the routine
              \* may have written it
              marker == cache_buster \/ marker_written
              \* lines 358-359, `mkdir -p build` and `date +%s >
              \* build/cache-buster`: simple commands under errexit
              unverified == ~marker /\ ~marker_created
          IN  /\ package_hash' = ph
              /\ stored_hash' = sh
              /\ decision' = d
              /\ upgrade_runs' = IF routine = "upgrade" THEN 1 ELSE 0
              /\ build_runs' = IF routine = "build" THEN 1 ELSE 0
              /\ outcome' = IF invoked THEN out ELSE "none"
              /\ build_log' = BuildLog(d, routine, out)
              /\ CASE aborted ->
                        /\ Abort("build")
                        /\ UNCHANGED <<done, install_hash, cache_buster, admin, client>>
                   [] ~aborted /\ d = "Skip" ->
                        \* the `return` of line 340: lines 343-361 are
                        \* not reached
                        /\ Proceed("build", "patch")
                        /\ UNCHANGED <<install_hash, cache_buster, admin, client>>
                   [] ~aborted /\ d # "Skip" /\ unverified ->
                        \* the marker could not be created: errexit ends
                        \* the launch, after the record was saved
                        /\ Abort("build")
                        /\ done' = done
                        /\ install_hash' = SavedHash(d, ph, install_hash)
                        /\ cache_buster' = FALSE
                        /\ admin' \in FreshAdmin /\ client' \in FreshClient
                   [] OTHER ->
                        /\ Proceed("build", "patch")
                        /\ install_hash' = SavedHash(d, ph, install_hash)
                        /\ cache_buster' = TRUE
                        \* the routine writes the bundles anew
                        /\ admin' \in FreshAdmin /\ client' \in FreshClient
    /\ UNCHANGED <<supVars, script, fnVars, metaVars, sigVars, manifest, nodebb_x, config_json, probeVars,
                   launchVars, envVars, admin_backup, client_backup, patch_error,
                   validation_errors>>

\* section 6, lines 375-529: fix_jquery_assets is a simple command under
\* errexit, so its `return 1` ends the launch.  fetch is how curl ends
\* ("short": fewer than 50000 bytes arrived).
fix_jquery_assets ==
    /\ script = "production"
    /\ pc = "patch"
    /\ \E build_public \in (IF admin # Absent \/ client # Absent
                            THEN {TRUE} ELSE BOOLEAN),
          fetch \in {"ok", "short", "failed"} :
          LET err == CASE ~build_public -> "no directory"
                       [] fetch = "failed" -> "download"
                       [] fetch = "short" -> "incomplete"
                       [] admin = Absent -> "no admin bundle"
                       [] OTHER -> "none"
              rewrites == build_public /\ fetch = "ok"
          IN  /\ patch_error' = err
              /\ IF rewrites /\ admin # Absent
                 THEN /\ admin_backup' = admin
                      /\ admin' = Rewrite(admin, AdminHeader, AdminScripts)
                 ELSE UNCHANGED <<admin, admin_backup>>
              /\ IF rewrites /\ client # Absent
                 THEN /\ client_backup' = client
                      /\ client' = Rewrite(client, ClientHeader, ClientScripts)
                 ELSE UNCHANGED <<client, client_backup>>
              /\ IF err = "none"
                 THEN Proceed("patch", "preflight")
                 ELSE /\ pc' = "exited"
                      /\ status' = ErrExitStatus(1)
                      /\ failed' = "patch"
                      /\ done' = done
    /\ UNCHANGED <<supVars, script, fnVars, metaVars, sigVars, fsVars, probeVars, buildVars, launchVars, envVars,
                   validation_errors>>

\* pre_start_validation before its first check (line 541)
NoErrors == [n |-> 0, msgs |-> <<>>, created |-> {}, aborted |-> FALSE]

\* variant: only the first failure is counted and reported
Check_first_only(r, failing, msg) ==
    IF failing /\ r.n = 0
    THEN [r EXCEPT !.n = 1, !.msgs = Append(@, msg)]
    ELSE r

\* one `if [ ! ... ]; then echo "❌ ..."; validation_errors=$((.. + 1))`
Check(r, failing, msg) ==
    IF failing
    THEN [r EXCEPT !.n = @ + 1, !.msgs = Append(@, msg)]
    ELSE r

\* lines 570-583: the loop over critical_dirs from index i on.  mkdir -p is
\* a simple command under errexit: when it fails the script ends there.
RECURSIVE DirLoop(_, _, _)
DirLoop(r, dirs, i) ==
    IF i > Len(critical_dirs) THEN r
    ELSE LET dir == critical_dirs[i]
         IN  CASE dirs[dir] = "uncreatable" -> [r EXCEPT !.aborted = TRUE]
               [] dirs[dir] = "missing" ->
                     DirLoop([r EXCEPT !.created = @ \cup {dir}], dirs, i + 1)
               [] OTHER ->
                     DirLoop(Check(r, dirs[dir] = "unwritable", dir), dirs, i + 1)

\* lines 541-602: the checks in script order
PreflightReport(in) ==
    LET r1 == Check(NoErrors, ~in.config, "config.json")
        r2 == Check(r1, ~in.nodebb, "nodebb")
        r3 == Check(r2, ~in.node_modules, "node_modules")
        r4 == DirLoop(r3, in.dirs, 1)
    IN  IF r4.aborted THEN r4 ELSE Check(r4, ~in.runtime, "node")

\* everything the checks can find
PreflightInputs ==
    [config : BOOLEAN, nodebb : BOOLEAN, node_modules : BOOLEAN,
     dirs : [{critical_dirs[i] : i \in 1..Len(critical_dirs)} -> DirStates],
     runtime : BOOLEAN]

\* variant: the trap is set when the gate is entered, not after it
pre_start_validation_trap_first ==
    /\ script = "production"
    /\ pc = "preflight"
    /\ trap_installed' = TRUE
    /\ \E in \in PreflightInputs :
          /\ in.config = config_json
          /\ in.nodebb = nodebb_x
          /\ LET r == PreflightReport(in)
             IN  /\ validation_errors' = r.n
                 /\ IF ~r.aborted /\ PreflightPass(r.n)
                    THEN Proceed("preflight", "trap")
                    ELSE Abort("preflight") /\ done' = done
    /\ UNCHANGED <<supVars, script, fnVars, metaVars, signalled, cleanup_ran, fsVars, probeVars, buildVars, launchVars,
                   envVars, assetVars>>

\* section 7, lines 540-612: every check is made, failures are counted
pre_start_validation ==
    /\ script = "production"
    /\ pc = "preflight"
    /\ \E in \in PreflightInputs :
          /\ in.config = config_json
          /\ in.nodebb = nodebb_x
          /\ LET r == PreflightReport(in)
             IN  /\ validation_errors' = r.n
                 /\ IF ~r.aborted /\ PreflightPass(r.n)
                    THEN Proceed("preflight", "trap")
                    ELSE Abort("preflight") /\ done' = done
    /\ UNCHANGED <<supVars, script, fnVars, metaVars, sigVars, fsVars, probeVars, buildVars, launchVars,
                   envVars, assetVars>>

\* line 670: `trap cleanup SIGTERM SIGINT SIGQUIT`, the last command before
\* start_forum is called
trap_cleanup ==
    /\ script = "production"
    /\ pc = "trap"
    /\ pc' = "start"
    /\ trap_installed' = TRUE
    /\ UNCHANGED <<script, fnVars, metaVars, status, supVars, prodVars, signalled,
                   cleanup_ran>>

\* section 8, lines 621-673: `exec node app.js`; the managed process takes
\* the place of the shell, and the shell's traps go with it
start_forum ==
    /\ script = "production"
    /\ pc = "start"
    /\ pc' = "handoff"
    /\ running' = running + 1
    /\ launches' = launches + 1
    /\ trap_installed' = FALSE
    /\ UNCHANGED <<script, fnVars, metaVars, status, EXIT_CODE, history, rebuilds,
                   rebuild_ok, prodVars, signalled, cleanup_ran>>

\* the managed process ends; its exit code is the container's
managed_exit ==
    /\ script \in Handoff
    /\ pc = "handoff"
    /\ running > 0
    /\ \E c \in ExitCodes :
          /\ status' = c
          /\ history' = Append(history, c)
    /\ running' = running - 1
    /\ pc' = "exited"
    /\ UNCHANGED <<script, fnVars, metaVars, sigVars, EXIT_CODE, launches, rebuilds, rebuild_ok, prodVars>>

\* the container is started again: the script runs from the top with what
\* the volumes hold (install_hash.md5, build/); the image and the
\* environment may have changed
Relaunch ==
    /\ script \in Handoff
    /\ pc = "exited"
    /\ launch_no < MaxLaunches
    /\ launch_no' = launch_no + 1
    /\ prev_manifest' = manifest
    /\ prev_built' = ("build" \in {done[i] : i \in 1..Len(done)})
    /\ manifest' \in Manifests
    /\ nodebb_x' \in BOOLEAN
    /\ START_BUILD' \in {"", "true", "false"}
    /\ config_json' = FALSE
    /\ pc' = IF script = "production" THEN "environment" ELSE "main"
    /\ status' = Running
    /\ attempt' = 0 /\ probes' = 0 /\ sleeps' = 0 /\ reached_at' = 0
    /\ package_hash' = "" /\ stored_hash' = "" /\ decision' = "none"
    /\ upgrade_runs' = 0 /\ build_runs' = 0 /\ outcome' = "none"
    /\ build_log' = <<>>
    /\ validation_errors' = 0
    /\ done' = <<>>
    /\ failed' = "none"
    /\ history' = <<>>
    /\ launches' = 0
    /\ env_unset' = {}
    /\ missing_var' = "none"
    /\ patch_error' = "none"
    /\ trap_installed' = FALSE /\ signalled' = FALSE /\ cleanup_ran' = FALSE
    /\ UNCHANGED <<script, fnVars, metaVars, EXIT_CODE, running, rebuilds, rebuild_ok,
                   install_hash, cache_buster, admin, client, admin_backup,
                   client_backup>>

\* ============================================================ part_001
\* (the DocumentDB entrypoint)
\* set_defaults, line 11:
\* START_BUILD="${START_BUILD:-${FORCE_BUILD_BEFORE_START:-true}}"
documentdb_set_defaults(sb, force) ==
    IF sb # "" THEN sb
    ELSE IF force # "" THEN force
    ELSE "true"

\* build_forum, lines 194, 200, 206: the upgrade branch is taken when the
\* fingerprint EQUALS the stored one, the build branch when
\* start_build is true, otherwise the function returns
documentdb_decision(ph, sh, sb) ==
    IF ph = sh THEN "Upgrade"
    ELSE IF sb = "true" THEN "Build"
    ELSE "Skip"

\* main, lines 265-280: set_defaults, check_directory, the package steps
\* and create_documentdb_config, each a simple command under errexit
documentdb_main ==
    /\ script = "documentdb"
    /\ pc = "main"
    /\ \E force \in {"", "true", "false"} :
          START_BUILD' = documentdb_set_defaults(START_BUILD, force)
    /\ config_json' = TRUE
    /\ \E ok \in BOOLEAN :
          IF ok
          THEN pc' = "build" /\ UNCHANGED <<status, failed>>
          ELSE pc' = "exited" /\ status' = ErrExitStatus(1) /\ failed' = "main"
    /\ UNCHANGED <<supVars, script, fnVars, metaVars, sigVars, manifest, nodebb_x, install_hash, cache_buster,
                   probeVars, buildVars, launch_no, prev_manifest, prev_built,
                   envVars, assetVars, validation_errors, done>>

\* variant: the record is written before the routine is run
documentdb_build_forum_write_first ==
    /\ script = "documentdb"
    /\ pc = "build"
    /\ \E out \in {"ok", "fail"} :
          LET ph == PackageHash(manifest)
              sh == install_hash
              d == documentdb_decision(ph, sh, START_BUILD)
          IN  /\ package_hash' = ph
              /\ stored_hash' = sh
              /\ decision' = d
              /\ upgrade_runs' = IF d = "Upgrade" THEN 1 ELSE 0
              /\ build_runs' = IF d = "Build" THEN 1 ELSE 0
              /\ outcome' = IF d = "Skip" THEN "none" ELSE out
              /\ UNCHANGED build_log
              /\ install_hash' = ph
              /\ IF d # "Skip" /\ OrFails(TimeoutStatus(out))
                 THEN Abort("build")
                 ELSE pc' = "start" /\ UNCHANGED <<status, failed>>
    /\ UNCHANGED <<supVars, script, fnVars, metaVars, sigVars, manifest, nodebb_x, config_json, cache_buster,
                   probeVars, launchVars, envVars, assetVars, validation_errors, done>>

\* build_forum, lines 190-214, called by start_forum (line 239).  out is how
\* the invoked routine ends; `|| { ...; exit 1; }` ends the launch on a
\* failure, line 209 `return`s on Skip, line 211 writes the record after
\* either routine has succeeded.
documentdb_build_forum ==
    /\ script = "documentdb"
    /\ pc = "build"
    /\ \E out \in {"ok", "fail"} :
          LET ph == PackageHash(manifest)
              sh == install_hash
              d == documentdb_decision(ph, sh, START_BUILD)
          IN  /\ package_hash' = ph
              /\ stored_hash' = sh
              /\ decision' = d
              /\ upgrade_runs' = IF d = "Upgrade" THEN 1 ELSE 0
              /\ build_runs' = IF d = "Build" THEN 1 ELSE 0
              /\ outcome' = IF d = "Skip" THEN "none" ELSE out
              /\ UNCHANGED build_log
              /\ IF d # "Skip" /\ OrFails(TimeoutStatus(out))
                 THEN /\ Abort("build")
                      /\ install_hash' = install_hash
                 ELSE /\ pc' = "start"
                      /\ install_hash' = IF d = "Skip" THEN install_hash ELSE ph
                      /\ UNCHANGED <<status, failed>>
    /\ UNCHANGED <<supVars, script, fnVars, metaVars, sigVars, manifest, nodebb_x, config_json, cache_buster,
                   probeVars, launchVars, envVars, assetVars, validation_errors, done>>

\* start_forum, line 244: `exec node app.js --config=...`
documentdb_start_forum ==
    /\ script = "documentdb"
    /\ pc = "start"
    /\ pc' = "handoff"
    /\ running' = running + 1
    /\ launches' = launches + 1
    /\ UNCHANGED <<script, fnVars, metaVars, sigVars, status, EXIT_CODE, history, rebuilds, rebuild_ok, prodVars>>

\* ======================================================= src/meta/index.js
\* (script "meta" is the NodeBB process in which Meta.restart is called)
\* fallbackRestart, lines 116-121: a 1000 ms timer is armed
fallbackRestart == fallback_calls' = fallback_calls + 1

\* restart, lines 65-85 and 107-113: aws is spawned, the listeners are
\* registered, hasError is false and the 5000 ms timer is armed
restart ==
    /\ script = "meta"
    /\ pc = "serving"
    /\ pc' = "restarting"
    /\ child' = "pending"
    /\ hasError' = FALSE
    /\ timer5' = "armed"
    /\ UNCHANGED <<script, status, supVars, prodVars, fnVars, sigVars, child_code, fallback_calls>>

\* lines 89-93: the "error" listener (aws could not be spawned)
awsProcess_on_error ==
    /\ script = "meta"
    /\ pc = "restarting"
    /\ child = "pending"
    /\ child' = "failed"
    /\ hasError' = TRUE
    /\ fallbackRestart
    /\ UNCHANGED <<script, pc, status, supVars, prodVars, fnVars, sigVars, child_code, timer5>>

\* variant: a failed command is only logged
awsProcess_on_exit_log_only ==
    /\ script = "meta"
    /\ pc = "restarting"
    /\ child \in {"pending", "failed"}
    /\ child' = "exited"
    /\ \E code \in ChildCodes : child_code' = code
    /\ UNCHANGED <<script, pc, status, supVars, prodVars, fnVars, sigVars, hasError, timer5,
                   fallback_calls>>

\* lines 95-105: the "exit" listener.  code is null when the child was
\* ended by a signal (awsProcess.kill() of line 110 among them); an exit
\* event may also follow an error event.
awsProcess_on_exit ==
    /\ script = "meta"
    /\ pc = "restarting"
    /\ child \in {"pending", "failed"}
    /\ child' = "exited"
    /\ \E code \in ChildCodes :
          /\ child_code' = code
          /\ IF code = 0
             THEN UNCHANGED fallback_calls
             ELSE IF ~hasError THEN fallbackRestart ELSE UNCHANGED fallback_calls
    /\ UNCHANGED <<script, pc, status, supVars, prodVars, fnVars, sigVars, hasError, timer5>>

\* variant: the timer is cleared when the command has exited with code 0
restart_timeout_cleared ==
    /\ script = "meta"
    /\ pc = "restarting"
    /\ timer5 = "armed"
    /\ timer5' = "fired"
    /\ IF ~hasError /\ child_code # 0
       THEN fallbackRestart ELSE UNCHANGED fallback_calls
    /\ UNCHANGED <<script, pc, status, supVars, prodVars, fnVars, sigVars, hasError, child,
                   child_code>>

\* lines 107-113: the 5000 ms timer fires, whether or not the child has
\* exited by then
restart_timeout ==
    /\ script = "meta"
    /\ pc = "restarting"
    /\ timer5 = "armed"
    /\ timer5' = "fired"
    /\ IF ~hasError THEN fallbackRestart ELSE UNCHANGED fallback_calls
    /\ UNCHANGED <<script, pc, status, supVars, prodVars, fnVars, sigVars, hasError, child,
                   child_code>>

\* lines 118-120: a 1000 ms timer of fallbackRestart fires: process.exit(0)
fallbackRestart_timeout ==
    /\ script = "meta"
    /\ pc = "restarting"
    /\ fallback_calls > 0
    /\ pc' = "exited"
    /\ status' = 0
    /\ UNCHANGED <<script, supVars, prodVars, fnVars, metaVars, sigVars>>

\* ===================================================== termination signals
\* exit status of a shell ended by SIGTERM
SIGTERM_STATUS == 128 + 15

\* variant: a shell without a trap is not ended by the signal (the shell
\* as process 1 of the container, without tini in front of it)
deliver_signal_ignored ==
    /\ script \in {"wrapper", "loop", "production", "documentdb"}
    /\ pc \notin {"exited", "handoff"}
    /\ ~signalled
    /\ signalled' = TRUE
    /\ cleanup_ran' = trap_installed
    /\ status' = IF trap_installed THEN 0 ELSE status
    /\ pc' = IF trap_installed THEN "exited" ELSE pc
    /\ running' = IF trap_installed THEN 0 ELSE running
    /\ UNCHANGED <<script, fnVars, metaVars, EXIT_CODE, launches, history, rebuilds,
                   rebuild_ok, prodVars, trap_installed>>

\* SIGTERM, SIGINT or SIGQUIT reaches the shell that runs the entrypoint
\* (after `exec` there is no shell left to signal).  With the trap set the
\* shell runs cleanup (production-entrypoint.sh lines 662-667: echo, exit 0);
\* with no trap the signal ends it at once, and the container with it.
\* part_000, part_001 and install/docker/entrypoint.sh set no trap.
deliver_signal ==
    /\ script \in {"wrapper", "loop", "production", "documentdb"}
    /\ pc \notin {"exited", "handoff"}
    /\ ~signalled
    /\ signalled' = TRUE
    /\ cleanup_ran' = trap_installed
    /\ status' = IF trap_installed THEN 0 ELSE SIGTERM_STATUS
    /\ pc' = "exited"
    /\ running' = 0
    /\ UNCHANGED <<script, fnVars, metaVars, EXIT_CODE, launches, history, rebuilds,
                   rebuild_ok, prodVars, trap_installed>>

\* =============================================================== system
Scripts == {"wrapper", "loop", "production", "documentdb"}

\* what Init starts: an entrypoint script, or a NodeBB process that is
\* about to be asked to restart
Programs == Scripts \cup {"meta"}

\* no signal so far, no trap set
NoSignal == trap_installed = FALSE /\ signalled = FALSE /\ cleanup_ran = FALSE

\* restart() has not been called
NoRestart ==
    /\ hasError = FALSE /\ child = "none" /\ child_code = NoCode
    /\ timer5 = "none" /\ fallback_calls = 0

\* no report: pre_start_validation has not been applied
NoReport == [n |-> -1, msgs |-> <<>>, created |-> {}, aborted |-> FALSE]

\* no script is running: the state of the specifications that apply one
\* function of a script to every input
NoScript ==
    /\ script = "none" /\ pc = "none" /\ status = Running
    /\ EXIT_CODE = -1 /\ running = 0 /\ launches = 0 /\ history = <<>>
    /\ rebuilds = 0 /\ rebuild_ok = <<>>
    /\ launch_no = 1 /\ START_BUILD = "" /\ prev_manifest = "none"
    /\ prev_built = FALSE
    /\ manifest = "none" /\ nodebb_x = TRUE /\ install_hash = ""
    /\ cache_buster = FALSE /\ config_json = FALSE
    /\ attempt = 0 /\ probes = 0 /\ sleeps = 0 /\ reached_at = 0
    /\ package_hash = "" /\ stored_hash = "" /\ decision = "none"
    /\ upgrade_runs = 0 /\ build_runs = 0 /\ outcome = "none"
    /\ build_log = <<>>
    /\ validation_errors = 0 /\ done = <<>> /\ failed = "none"
    /\ env_unset = {} /\ missing_var = "none"
    /\ admin = Absent /\ client = Absent /\ admin_backup = Absent
    /\ client_backup = Absent /\ patch_error = "none"
    /\ NoRestart
    /\ NoSignal

\* pre_start_validation is not being applied
NoPreflight == pf_in = NoReport /\ pf_out = NoReport

\* neither database script is running
NoOptions == [mode |-> "", key |-> "", dryRun |-> FALSE]
NoArgs == [file |-> "", mode |-> "", dryRun |-> FALSE]
NoTool ==
    /\ tool = "none" /\ tool_pc = "none" /\ args = NoArgs
    /\ options = NoOptions /\ data = <<>> /\ coll = <<>> /\ coll0 = <<>>
    /\ db_client = "none" /\ opened = FALSE /\ writes = 0
    /\ thrown = "none" /\ exit_code = NoCode

\* check_directory is not being followed
NoDirs ==
    /\ ck_script = "none" /\ ck_dirs = <<>> /\ ck_fs = <<>>
    /\ ck_repairs = <<>> /\ ck_i = 0 /\ ck_stage = "none"
    /\ ck_status = Running

\* Meta.restart is not being followed
NoPubsub ==
    /\ ps_host = <<>> /\ ps_primary = <<>> /\ ps_inbox = <<>>
    /\ ps_published = <<>> /\ ps_calls = 0 /\ ps_local = <<>>
    /\ ps_differing = <<>> /\ ps_restarts = <<>>

\* no configuration is being generated
NoConfig ==
    /\ cfg_env = "none" /\ cfg_file = "none" /\ cfg_prev = "none"
    /\ cfg_runs = 0 /\ clock = 0

Init ==
    /\ script \in Programs
    /\ NoPreflight
    /\ NoConfig
    /\ NoTool
    /\ NoDirs
    /\ NoPubsub
    /\ NoRestart
    /\ NoSignal
    /\ status = Running
    /\ EXIT_CODE = -1
    /\ running = 0
    /\ launches = 0
    /\ history = <<>>
    /\ rebuilds = 0
    /\ rebuild_ok = <<>>
    /\ launch_no = 1
    /\ prev_manifest = "none"
    /\ prev_built = FALSE
    /\ config_json = FALSE
    /\ attempt = 0 /\ probes = 0 /\ sleeps = 0 /\ reached_at = 0
    /\ package_hash = "" /\ stored_hash = "" /\ decision = "none"
    /\ upgrade_runs = 0 /\ build_runs = 0 /\ outcome = "none"
    /\ build_log = <<>>
    /\ validation_errors = 0
    /\ done = <<>>
    /\ failed = "none"
    /\ env_unset = {}
    /\ missing_var = "none"
    /\ patch_error = "none"
    /\ client = Absent
    /\ admin_backup = Absent
    /\ client_backup = Absent
    /\ admin \in (IF script = "production" THEN {Absent, <<AppLine>>} ELSE {Absent})
    /\ IF script \in Handoff
       THEN /\ pc = IF script = "production" THEN "environment" ELSE "main"
            /\ manifest \in Manifests
            /\ nodebb_x \in BOOLEAN
            /\ START_BUILD \in {"", "true", "false"}
            /\ install_hash \in Records
            /\ cache_buster \in BOOLEAN
       ELSE /\ pc = IF script = "meta" THEN "serving" ELSE "setup"
            /\ manifest = "none"
            /\ nodebb_x = TRUE
            /\ START_BUILD = ""
            /\ install_hash = ""
            /\ cache_buster = FALSE

Next ==
    \/ main_setup
    \/ restart_wrapper_launch
    \/ restart_wrapper_exit
    \/ restart_wrapper_case
    \/ restart_wrapper_sleep
    \/ entrypoint_setup
    \/ loop_build
    \/ loop_launch
    \/ loop_exit
    \/ loop_if
    \/ validate_environment
    \/ check_directory
    \/ check_database_connectivity
    \/ check_database_giveup
    \/ install_dependencies
    \/ create_configuration
    \/ build_forum
    \/ fix_jquery_assets
    \/ pre_start_validation
    \/ trap_cleanup
    \/ start_forum
    \/ managed_exit
    \/ documentdb_main
    \/ documentdb_build_forum
    \/ documentdb_start_forum
    \/ restart
    \/ awsProcess_on_error
    \/ awsProcess_on_exit
    \/ restart_timeout
    \/ fallbackRestart_timeout
    \/ deliver_signal
    \/ Relaunch

Spec == Init /\ [][Next]_vars

\* ---- pre_start_validation applied to everything its checks can find
InitPreflight ==
    /\ NoScript
    /\ NoConfig
    /\ NoTool
    /\ NoDirs
    /\ NoPubsub
    /\ pf_in \in PreflightInputs
    /\ pf_out = NoReport

pre_start_validation_report ==
    /\ pf_out = NoReport
    /\ pf_out' = PreflightReport(pf_in)
    /\ UNCHANGED <<script, pc, status, supVars, prodVars, pf_in, cfgVars, dbVars, dirVars, psVars, metaVars, sigVars>>

NextPreflight == pre_start_validation_report

SpecPreflight == InitPreflight /\ [][NextPreflight]_vars

\* ---- the configuration file, generated again at every launch
\* part_000:6 and entrypoint.sh:6: the secret written into the heredoc
HardcodedSecret == "super-strong-secret-key-for-production-change-this"

\* values of `date +%s`, and what `openssl rand -hex 32` can give
Times == 1..3
Randoms == {"r1", "r2", "r3"}

\* `openssl rand -hex 32`
OpensslRand(r) == <<"rand", r>>

\* `date +%s | sha256sum | base64 | head -c 32` run at second t
DateSecret(t) == <<"sha256", t>>

\* "${VAR:-default}": the default is taken when VAR is unset or empty
OrDefault(value, default) == IF value # "" THEN value ELSE default

\* the text written by `cat > "$config" << CONFIG_EOF`, as the values it
\* interpolates into the variant's template.  r is openssl's output, t1 and
\* t2 the seconds at which the two date commands of part_001 run.
ConfigContent(env, r, t1, t2) ==
    CASE env.variant = "production" ->
            \* create_configuration, lines 218-246
            [template |-> "production",
             url |-> OrDefault(env.SITE_URL, "https://forum.codeproject.com"),
             secret |-> OrDefault(env.NODEBB_SECRET, OpensslRand(r)),
             session_secret |-> "absent"]
      [] env.variant = "documentdb" ->
            \* create_documentdb_config, lines 101-165
            [template |-> "documentdb",
             url |-> OrDefault(env.SITE_URL, "https://forum.codeproject.com"),
             secret |-> OrDefault(env.NODEBB_SECRET, DateSecret(t1)),
             session_secret |-> OrDefault(env.SESSION_SECRET, DateSecret(t2))]
      [] OTHER ->
            \* part_000 create_config and entrypoint.sh lines 3-26
            [template |-> env.variant,
             url |-> "https://forum.codeproject.com",
             secret |-> HardcodedSecret,
             session_secret |-> "absent"]

\* the environments the entrypoints are started with
ConfigEnvs ==
    [variant : Scripts, SITE_URL : {"", "https://f.example"},
     NODEBB_SECRET : {"", "s3cret"}, SESSION_SECRET : {"", "sess10n"}]

InitConfig ==
    /\ NoScript
    /\ NoPreflight
    /\ NoTool
    /\ NoDirs
    /\ NoPubsub
    /\ cfg_env \in ConfigEnvs
    /\ cfg_file = "none"
    /\ cfg_prev = "none"
    /\ cfg_runs = 0
    /\ clock = 1

\* one launch reaches its configuration step: the file is written anew
\* (`cat >`), whatever it held
generate_configuration ==
    /\ cfg_runs < MaxGenerations
    /\ cfg_runs' = cfg_runs + 1
    /\ cfg_prev' = cfg_file
    /\ \E r \in Randoms, t1 \in Times, t2 \in Times :
          /\ clock <= t1 /\ t1 <= t2
          /\ clock' = t2
          /\ cfg_file' = ConfigContent(cfg_env, r, t1, t2)
    /\ UNCHANGED <<script, pc, status, supVars, prodVars, pfVars, dbVars, dirVars, cfg_env, psVars, metaVars, sigVars>>

NextConfig == generate_configuration

SpecConfig == InitConfig /\ [][NextConfig]_vars

\* ---- the database scripts: import-json.js and list-collections.js
\* _key of the index records that importData treats specially
OAuthIndex == "oauth2-multiple:strategies"

\* documents a JSON file may hold: _key "" is a document without the key
\* field, value 0 one without a (truthy) value field
FileDocs ==
    {[_key |-> "", value |-> 1], [_key |-> "a", value |-> 1],
     [_key |-> "a", value |-> 2], [_key |-> OAuthIndex, value |-> 0],
     [_key |-> OAuthIndex, value |-> 1], [_key |-> OAuthIndex, value |-> 2]}

\* documents the collection may hold before the script runs
StoredDocs ==
    {[_key |-> "a", value |-> 1], [_key |-> "b", value |-> 1],
     [_key |-> OAuthIndex, value |-> 1]}

SeqsUpTo(S, n) == UNION {[1..m -> S] : m \in 0..n}

\* --file: not given, naming no file, naming a file that is not JSON,
\* naming a JSON file
Files == {"", "missing.json", "bad.json", "data.json"}

\* --mode: not given, the three documented ones, anything else
Modes == {"", "insert", "upsert", "replace", "bogus"}

validModes == {"insert", "upsert", "replace"}

\* `const mode = args.mode || "upsert"`
ResolvedMode(a) == IF a.mode = "" THEN "upsert" ELSE a.mode

\* validateArgs throws
ArgsError(a) ==
    \/ a.file = ""
    \/ a.file = "missing.json"
    \/ ResolvedMode(a) \notin validModes

\* validateArgs returns
Options(a) == [mode |-> ResolvedMode(a), key |-> "_key", dryRun |-> a.dryRun]

\* documents of c matching the filter {_key: k}
Matching(c, k) == {i \in 1..Len(c) : c[i]._key = k}

First(I) == CHOOSE i \in I : \A j \in I : i <= j

\* replaceOne({[key]: doc[key]}, doc, {upsert: true})
replaceOne_upsert(c, doc) ==
    IF Matching(c, doc._key) = {}
    THEN Append(c, doc)
    ELSE [c EXCEPT ![First(Matching(c, doc._key))] = doc]

\* `!doc[key]`: the document is skipped
Skipped(doc) == doc._key = ""

\* the body of the for loop of importData for one document
ImportDoc(c, doc) ==
    IF Skipped(doc) THEN c
    ELSE IF doc._key = OAuthIndex /\ doc.value # 0
         THEN IF \E i \in 1..Len(c) : c[i] = doc
              THEN c                      \* replaceOne by the same document
              ELSE Append(c, doc)         \* insertOne
         ELSE replaceOne_upsert(c, doc)

\* the collection after the loop has dealt with the first n documents
RECURSIVE ImportDocs(_, _, _)
ImportDocs(c, d, n) ==
    IF n = 0 THEN c ELSE ImportDoc(ImportDocs(c, d, n - 1), d[n])

\* write calls issued for the first n documents (one per document not skipped)
Processed(d, n) == Cardinality({i \in 1..n : ~Skipped(d[i])})

Throw(step) ==
    /\ tool_pc' = "catch"
    /\ thrown' = step

\* main(): `const options = await validateArgs()`
main_validateArgs ==
    /\ tool = "import-json" /\ tool_pc = "main"
    /\ IF ArgsError(args)
       THEN Throw("validateArgs") /\ UNCHANGED options
       ELSE /\ options' = Options(args)
            /\ tool_pc' = "init"
            /\ UNCHANGED thrown
    /\ UNCHANGED <<script, pc, status, supVars, prodVars, pfVars, cfgVars, dirVars, psVars, metaVars, sigVars>>
    /\ UNCHANGED <<tool, args, data, coll, coll0, db_client, opened, writes, exit_code>>

\* main(): `await db.init()`, which resolves or rejects
main_db_init ==
    /\ tool = "import-json" /\ tool_pc = "init"
    /\ \E connected \in BOOLEAN :
          IF connected
          THEN /\ db_client' = "open"
               /\ opened' = TRUE
               /\ tool_pc' = "load"
               /\ UNCHANGED thrown
          ELSE Throw("db.init") /\ UNCHANGED <<db_client, opened>>
    /\ UNCHANGED <<script, pc, status, supVars, prodVars, pfVars, cfgVars, dirVars, psVars, metaVars, sigVars>>
    /\ UNCHANGED <<tool, args, options, data, coll, coll0, writes, exit_code>>

\* main(): `const data = await loadJsonDataWithEnv(...)`; JSON.parse throws
\* on a file that is not JSON
main_loadJsonDataWithEnv ==
    /\ tool = "import-json" /\ tool_pc = "load"
    /\ IF args.file = "bad.json"
       THEN Throw("loadJsonDataWithEnv")
       ELSE tool_pc' = "import" /\ UNCHANGED thrown
    /\ UNCHANGED <<script, pc, status, supVars, prodVars, pfVars, cfgVars, dirVars, psVars, metaVars, sigVars>>
    /\ UNCHANGED <<tool, args, options, data, coll, coll0, db_client, opened, writes, exit_code>>

\* importData without the dry-run branch
importData_no_preview ==
    /\ tool = "import-json" /\ tool_pc = "import"
    /\ \E n \in 0..Len(data), rejected \in BOOLEAN :
          /\ rejected => (n < Len(data) /\ ~Skipped(data[n + 1]))
          /\ ~rejected => n = Len(data)
          /\ coll' = ImportDocs(coll, data, n)
          /\ writes' = writes + Processed(data, n)
          /\ IF rejected
             THEN Throw("importData")
             ELSE tool_pc' = "finally" /\ UNCHANGED thrown
    /\ UNCHANGED <<script, pc, status, supVars, prodVars, pfVars, cfgVars, dirVars, psVars, metaVars, sigVars>>
    /\ UNCHANGED <<tool, args, options, data, coll0, db_client, opened, exit_code>>

\* main(): `await importData(options.collection, data, options)`.  With
\* dryRun the function prints the masked data and returns; otherwise the
\* loop deals with the documents in order, and a database call that rejects
\* at document n + 1 ends it with the first n dealt with.  options.mode is
\* logged and not read again.
importData ==
    /\ tool = "import-json" /\ tool_pc = "import"
    /\ IF options.dryRun
       THEN /\ tool_pc' = "finally"
            /\ UNCHANGED <<coll, writes, thrown>>
       ELSE \E n \in 0..Len(data), rejected \in BOOLEAN :
               /\ rejected => (n < Len(data) /\ ~Skipped(data[n + 1]))
               /\ ~rejected => n = Len(data)
               /\ coll' = ImportDocs(coll, data, n)
               /\ writes' = writes + Processed(data, n)
               /\ IF rejected
                  THEN Throw("importData")
                  ELSE tool_pc' = "finally" /\ UNCHANGED thrown
    /\ UNCHANGED <<script, pc, status, supVars, prodVars, pfVars, cfgVars, dirVars, psVars, metaVars, sigVars>>
    /\ UNCHANGED <<tool, args, options, data, coll0, db_client, opened, exit_code>>

\* variant: the catch block only logs, the finally block runs after it
main_catch_falls_through ==
    /\ tool = "import-json" /\ tool_pc = "catch"
    /\ tool_pc' = "finally"
    /\ UNCHANGED <<script, pc, status, supVars, prodVars, pfVars, cfgVars, dirVars, psVars, metaVars, sigVars>>
    /\ UNCHANGED <<tool, args, options, data, coll, coll0, db_client, opened, writes, thrown, exit_code>>

\* main(): the catch block; process.exit(1) ends the process there, the
\* finally block is not reached
main_catch ==
    /\ tool = "import-json" /\ tool_pc = "catch"
    /\ exit_code' = 1
    /\ tool_pc' = "exited"
    /\ UNCHANGED <<script, pc, status, supVars, prodVars, pfVars, cfgVars, dirVars, psVars, metaVars, sigVars>>
    /\ UNCHANGED <<tool, args, options, data, coll, coll0, db_client, opened, writes, thrown>>

\* main(): the finally block after a try block that completed
main_finally ==
    /\ tool = "import-json" /\ tool_pc = "finally"
    /\ db_client' = IF db_client = "open" THEN "closed" ELSE db_client
    /\ exit_code' = 0
    /\ tool_pc' = "exited"
    /\ UNCHANGED <<script, pc, status, supVars, prodVars, pfVars, cfgVars, dirVars, psVars, metaVars, sigVars>>
    /\ UNCHANGED <<tool, args, options, data, coll, coll0, opened, writes, thrown>>

\* listCollections(): `await db.init()`
listCollections_init ==
    /\ tool = "list-collections" /\ tool_pc = "main"
    /\ \E connected \in BOOLEAN :
          IF connected
          THEN /\ db_client' = "open"
               /\ opened' = TRUE
               /\ tool_pc' = "fetch"
               /\ UNCHANGED thrown
          ELSE Throw("db.init") /\ UNCHANGED <<db_client, opened>>
    /\ UNCHANGED <<script, pc, status, supVars, prodVars, pfVars, cfgVars, dirVars, psVars, metaVars, sigVars>>
    /\ UNCHANGED <<tool, args, options, data, coll, coll0, writes, exit_code>>

\* listCollections(): `await db.client.listCollections().toArray()` and the
\* report; a countDocuments that rejects is caught inside the loop
listCollections_fetch ==
    /\ tool = "list-collections" /\ tool_pc = "fetch"
    /\ \E rejected \in BOOLEAN :
          IF rejected
          THEN Throw("listCollections")
          ELSE tool_pc' = "finally" /\ UNCHANGED thrown
    /\ UNCHANGED <<script, pc, status, supVars, prodVars, pfVars, cfgVars, dirVars, psVars, metaVars, sigVars>>
    /\ UNCHANGED <<tool, args, options, data, coll, coll0, db_client, opened, writes, exit_code>>

\* listCollections(): the catch block, process.exit(1)
listCollections_catch ==
    /\ tool = "list-collections" /\ tool_pc = "catch"
    /\ exit_code' = 1
    /\ tool_pc' = "exited"
    /\ UNCHANGED <<script, pc, status, supVars, prodVars, pfVars, cfgVars, dirVars, psVars, metaVars, sigVars>>
    /\ UNCHANGED <<tool, args, options, data, coll, coll0, db_client, opened, writes, thrown>>

\* listCollections(): the finally block after a try block that completed
listCollections_finally ==
    /\ tool = "list-collections" /\ tool_pc = "finally"
    /\ db_client' = IF db_client = "open" THEN "closed" ELSE db_client
    /\ exit_code' = 0
    /\ tool_pc' = "exited"
    /\ UNCHANGED <<script, pc, status, supVars, prodVars, pfVars, cfgVars, dirVars, psVars, metaVars, sigVars>>
    /\ UNCHANGED <<tool, args, options, data, coll, coll0, opened, writes, thrown>>

InitTools ==
    /\ NoScript
    /\ NoPreflight
    /\ NoConfig
    /\ NoDirs
    /\ NoPubsub
    /\ tool \in {"import-json", "list-collections"}
    /\ tool_pc = "main"
    /\ options = NoOptions
    /\ db_client = "none" /\ opened = FALSE /\ writes = 0
    /\ thrown = "none" /\ exit_code = NoCode
    /\ coll0 \in SeqsUpTo(StoredDocs, MaxStored)
    /\ coll = coll0
    /\ IF tool = "import-json"
       THEN /\ args \in [file : Files, mode : Modes, dryRun : BOOLEAN]
            /\ data \in (IF args.file = "data.json"
                         THEN SeqsUpTo(FileDocs, MaxDocs) ELSE {<<>>})
       ELSE args = NoArgs /\ data = <<>>

NextTools ==
    \/ main_validateArgs
    \/ main_db_init
    \/ main_loadJsonDataWithEnv
    \/ importData
    \/ main_catch
    \/ main_finally
    \/ listCollections_init
    \/ listCollections_fetch
    \/ listCollections_catch
    \/ listCollections_finally

SpecTools == InitTools /\ [][NextTools]_vars


\* ---- check_directory (production-entrypoint.sh 55-79, part_001 18-36)
\* the directories each entrypoint passes to check_directory, in order
CheckedDirs(sc) ==
    IF sc = "production" THEN <<"config", "uploads", "logs">> ELSE <<"config">>

\* a directory as a call finds it (fs), what `mkdir -p` does when it is
\* absent, and whether chown/chmod make it writable
DirInputs ==
    [fs : {"absent", "writable", "unwritable"},
     mkdir : {"fail", "writable", "unwritable"},
     repair : {"fixes", "no effect"}]

\* `mkdir -p "$dir" || { ...; exit 1; }` of the `[ ! -d ]` branch exits
MkdirExits(d) == d.fs = "absent" /\ d.mkdir = "fail"

\* the directory when the first `[ ! -w "$dir" ]` is evaluated
AfterMkdir(d) == IF d.fs = "absent" THEN d.mkdir ELSE d.fs

\* the first `[ ! -w "$dir" ]` holds: chown and chmod are run, each `|| true`
Repairs(d) == IF AfterMkdir(d) # "writable" THEN 1 ELSE 0

\* the directory when the function returns or exits
AfterRepair(d) ==
    IF Repairs(d) = 1 /\ d.repair = "fixes" THEN "writable" ELSE AfterMkdir(d)

\* variant: without the second `[ ! -w "$dir" ]` test
CheckDirectory_no_retest(d) ==
    IF MkdirExits(d)
    THEN [fs |-> "absent", repairs |-> 0, exits |-> TRUE]
    ELSE [fs |-> AfterRepair(d), repairs |-> Repairs(d), exits |-> FALSE]

\* check_directory "$dir": what it leaves and whether it ends the script
CheckDirectory(d) ==
    IF MkdirExits(d)
    THEN [fs |-> "absent", repairs |-> 0, exits |-> TRUE]
    ELSE [fs |-> AfterRepair(d), repairs |-> Repairs(d),
          exits |-> AfterRepair(d) # "writable"]

InitDirs ==
    /\ NoScript
    /\ NoPreflight
    /\ NoConfig
    /\ NoTool
    /\ NoPubsub
    /\ ck_script \in Handoff
    /\ ck_dirs \in [1..Len(CheckedDirs(ck_script)) -> DirInputs]
    /\ ck_fs = [i \in 1..Len(ck_dirs) |-> ck_dirs[i].fs]
    /\ ck_repairs = [i \in 1..Len(ck_dirs) |-> 0]
    /\ ck_i = 1
    /\ ck_stage = "directories"
    /\ ck_status = Running

\* one call of check_directory (production lines 83-85, part_001 line 266)
check_directory_call ==
    /\ ck_stage = "directories"
    /\ ck_status = Running
    /\ ck_i <= Len(ck_dirs)
    /\ LET r == CheckDirectory(ck_dirs[ck_i])
       IN  /\ ck_fs' = [ck_fs EXCEPT ![ck_i] = r.fs]
           /\ ck_repairs' = [ck_repairs EXCEPT ![ck_i] = @ + r.repairs]
           /\ IF r.exits
              THEN ck_status' = 1 /\ ck_i' = ck_i
              ELSE ck_status' = ck_status /\ ck_i' = ck_i + 1
    /\ UNCHANGED <<script, pc, status, supVars, prodVars, pfVars, cfgVars, dbVars, psVars, metaVars, sigVars>>
    /\ UNCHANGED <<ck_script, ck_dirs, ck_stage>>

\* every call has returned: the script goes on to what follows
check_directory_return ==
    /\ ck_stage = "directories"
    /\ ck_status = Running
    /\ ck_i > Len(ck_dirs)
    /\ ck_stage' = "next"
    /\ UNCHANGED <<script, pc, status, supVars, prodVars, pfVars, cfgVars, dbVars, psVars, metaVars, sigVars>>
    /\ UNCHANGED <<ck_script, ck_dirs, ck_fs, ck_repairs, ck_i, ck_status>>

NextDirs == check_directory_call \/ check_directory_return

SpecDirs == InitDirs /\ [][NextDirs]_vars

\* ---- Meta.restart over pubsub (src/meta/index.js 51-63)
\* the NodeBB processes that share the pubsub channel, and their hosts
Procs == {1, 2, 3}
Hosts == {"hostA", "hostB"}

\* variant: the handler calls Meta.restart instead of restart
pubsub_on_meta_restart_republish ==
    \E p \in Procs :
        /\ ps_inbox[p] # <<>>
        /\ LET msg == Head(ps_inbox[p])
               differs == msg.hostname # ps_host[p]
           IN  /\ ps_differing' = IF differs
                                  THEN [ps_differing EXCEPT ![p] = @ + 1]
                                  ELSE ps_differing
               /\ ps_restarts' = IF differs
                                 THEN [ps_restarts EXCEPT ![p] = @ + 1]
                                 ELSE ps_restarts
               /\ ps_published' =
                     IF differs
                     THEN Append(ps_published, [hostname |-> ps_host[p], from |-> p])
                     ELSE ps_published
               /\ ps_inbox' = [q \in Procs |->
                     LET rest == IF q = p THEN Tail(ps_inbox[q]) ELSE ps_inbox[q]
                     IN  IF differs /\ ps_primary[q]
                         THEN Append(rest, [hostname |-> ps_host[p]])
                         ELSE rest]
    /\ UNCHANGED <<script, pc, status, supVars, prodVars, pfVars, cfgVars, dbVars, dirVars, metaVars, sigVars>>
    /\ UNCHANGED <<ps_host, ps_primary, ps_calls, ps_local>>

\* lines 60-63, Meta.restart: one message {hostname: os.hostname()} is
\* published, then restart() is called.  The message goes to every process
\* that registered a handler (the primaries, the publisher among them).
Meta_restart ==
    /\ ps_calls < MaxRestartCalls
    /\ \E p \in Procs :
          /\ ps_calls' = ps_calls + 1
          /\ ps_local' = [ps_local EXCEPT ![p] = @ + 1]
          /\ ps_published' = Append(ps_published, [hostname |-> ps_host[p], from |-> p])
          /\ ps_inbox' = [q \in Procs |->
                IF ps_primary[q]
                THEN Append(ps_inbox[q], [hostname |-> ps_host[p]])
                ELSE ps_inbox[q]]
          /\ ps_restarts' = [ps_restarts EXCEPT ![p] = @ + 1]
    /\ UNCHANGED <<script, pc, status, supVars, prodVars, pfVars, cfgVars, dbVars, dirVars, metaVars, sigVars>>
    /\ UNCHANGED <<ps_host, ps_primary, ps_differing>>

\* lines 51-57, the handler a primary registers: restart() when
\* data.hostname is not its own hostname; nothing is published
pubsub_on_meta_restart ==
    \E p \in Procs :
        /\ ps_inbox[p] # <<>>
        /\ LET msg == Head(ps_inbox[p])
               differs == msg.hostname # ps_host[p]
           IN  /\ ps_differing' = IF differs
                                  THEN [ps_differing EXCEPT ![p] = @ + 1]
                                  ELSE ps_differing
               /\ ps_restarts' = IF differs
                                 THEN [ps_restarts EXCEPT ![p] = @ + 1]
                                 ELSE ps_restarts
               /\ ps_inbox' = [ps_inbox EXCEPT ![p] = Tail(@)]
    /\ UNCHANGED <<script, pc, status, supVars, prodVars, pfVars, cfgVars, dbVars, dirVars, metaVars, sigVars>>
    /\ UNCHANGED <<ps_host, ps_primary, ps_published, ps_calls, ps_local>>

InitPubsub ==
    /\ NoScript
    /\ NoPreflight
    /\ NoConfig
    /\ NoTool
    /\ NoDirs
    /\ ps_host \in [Procs -> Hosts]
    /\ ps_primary \in [Procs -> BOOLEAN]
    /\ ps_inbox = [p \in Procs |-> <<>>]
    /\ ps_published = <<>>
    /\ ps_calls = 0
    /\ ps_local = [p \in Procs |-> 0]
    /\ ps_differing = [p \in Procs |-> 0]
    /\ ps_restarts = [p \in Procs |-> 0]

NextPubsub == Meta_restart \/ pubsub_on_meta_restart

SpecPubsub == InitPubsub /\ [][NextPubsub]_vars

\* ---- the forum process under restart_wrapper: `node app.js` runs in the
\* foreground, so the shell stands at line 58 for as long as the process
\* lives; script says which of the two is running
\* part_000 line 58: the process started by the wrapper is up and serving
node_started ==
    /\ script = "wrapper"
    /\ pc = "wait"
    /\ running > 0
    /\ script' = "meta"
    /\ pc' = "serving"
    /\ hasError' = FALSE /\ child' = "none" /\ child_code' = NoCode
    /\ timer5' = "none" /\ fallback_calls' = 0
    /\ UNCHANGED <<status, supVars, prodVars, fnVars, sigVars>>

\* part_000 lines 58-59: the process has ended with process.exit (meta
\* line 119), `node app.js` returns its code to the shell; errexit as in
\* restart_wrapper_exit
node_exited ==
    /\ script = "meta"
    /\ pc = "exited"
    /\ running > 0
    /\ Len(history) < MaxExits
    /\ script' = "wrapper"
    /\ history' = Append(history, status)
    /\ running' = running - 1
    /\ IF ErrExit /\ status # 0
       THEN /\ pc' = "exited"
            /\ status' = ErrExitStatus(status)
            /\ EXIT_CODE' = EXIT_CODE
       ELSE /\ pc' = "case"
            /\ status' = Running
            /\ EXIT_CODE' = status
    /\ UNCHANGED <<launches, rebuilds, rebuild_ok, prodVars, fnVars, metaVars, sigVars>>

InitSupervised == Init /\ script = "wrapper"

NextSupervised ==
    \/ main_setup
    \/ restart_wrapper_launch
    \/ restart_wrapper_exit
    \/ restart_wrapper_case
    \/ restart_wrapper_sleep
    \/ node_started
    \/ restart
    \/ awsProcess_on_error
    \/ awsProcess_on_exit
    \/ restart_timeout
    \/ fallbackRestart_timeout
    \/ node_exited

\* timers that are armed fire, and a shell that can run its next command
\* runs it
FairSupervised ==
    /\ WF_vars(restart_timeout)
    /\ WF_vars(fallbackRestart_timeout)
    /\ WF_vars(node_exited)
    /\ WF_vars(restart_wrapper_case)
    /\ WF_vars(restart_wrapper_sleep)
    /\ WF_vars(restart_wrapper_launch)

SpecSupervised == InitSupervised /\ [][NextSupervised]_vars /\ FairSupervised

\* ================================================================ claims

Supervised == script \in {"wrapper", "loop"}

\* C1: in restart_wrapper the supervisor relaunches after every exit code 0
\* and every 200, having rebuilt once for each 200, and stops only at the
\* first other code, with that code as its own exit status (so for 0, 200,
\* 17 it launches three times, rebuilds once and exits 17).
C1_SupervisedLoopScenario ==
    (script = "wrapper" /\ pc \in {"launch", "wait", "exited"}) =>
        /\ rebuilds = Count(history, 200)
        /\ (pc = "exited" /\ history # <<>>) =>
              /\ Classify(Last(history)) = "Fatal"
              /\ status = Last(history)
              /\ launches = Len(history)

\* C2: in restart_wrapper an exit code 200 never ends the loop: the build
\* is run once and the managed process is launched again, whether or not
\* the build succeeded.
C2_RebuildThenRelaunch ==
    (script = "wrapper" /\ history # <<>> /\ Last(history) = 200) =>
        /\ pc # "exited"
        /\ pc \in {"sleep", "launch"} => rebuilds = Count(history, 200)

\* C3: in both supervised loops, once the managed process has returned a
\* code other than 0 and 200 the supervisor has exited with that same code
\* and has not launched again.
C3_FatalPropagates ==
    (Supervised /\ history # <<>> /\ Last(history) \notin {0, 200}) =>
        /\ pc = "exited"
        /\ status = Last(history)
        /\ launches = Len(history)
        /\ running = 0

C3_Witness ==
    /\ script = "wrapper"
    /\ history = <<0, 17>>
    /\ pc = "exited"
    /\ status = 17

\* C4: in both supervised loops at most one managed process is alive, and a
\* launch happens only when no instance is alive, every earlier instance has
\* exited and the last exit code has been stored for evaluation.
C4_OneInstance ==
    /\ [](Supervised => running <= 1)
    /\ [][(Supervised /\ launches' = launches + 1) =>
            /\ running = 0
            /\ Len(history) = launches
            /\ launches > 0 => EXIT_CODE = Last(history)]_vars

C4_Witness ==
    /\ script = "wrapper"
    /\ launches = 2
    /\ running = 1

\* C5: in production-entrypoint.sh the stages complete in script order, the
\* managed process runs only when all of them have completed in this launch,
\* and a launch in which a stage failed (the preflight count is above zero
\* in particular) has exited non-zero without running anything later.
C5_StagesInOrder ==
    script = "production" =>
        /\ IsPrefix(done, Stages)
        /\ (running > 0 \/ pc = "handoff") => done = Stages
        /\ failed # "none" =>
              /\ pc = "exited"
              /\ status \notin {0, Running}
              /\ running = 0
              /\ Len(done) < Len(Stages)
              /\ Stages[Len(done) + 1] = failed
        /\ validation_errors > 0 => failed = "preflight"

C5_Witness ==
    /\ script = "production"
    /\ pc = "handoff"
    /\ running = 1
    /\ done = Stages

\* C6: a probe that found the database unreachable on every attempt has
\* made exactly max_attempts attempts when it ends the launch with a
\* non-zero status; no launch makes more than max_attempts attempts.
C6_ExactlyMaxAttempts ==
    script = "production" =>
        /\ probes <= max_attempts
        /\ failed = "probe" =>
              /\ probes = max_attempts
              /\ reached_at = 0
              /\ pc = "exited"
              /\ status = 1

C6_Witness ==
    /\ script = "production"
    /\ failed = "probe"
    /\ probes = max_attempts

\* C7: when nc first succeeds at attempt k, the probe has made k attempts
\* and k - 1 sleeps, makes no more of either in this launch, and the script
\* goes on to the package stage.
C7_SuccessAtAttemptK ==
    /\ [](reached_at > 0 =>
            /\ reached_at <= max_attempts
            /\ probes = reached_at
            /\ sleeps = reached_at - 1
            /\ pc # "probe"
            /\ Len(done) >= 3 /\ done[3] = "probe")
    /\ [][(reached_at = 0 /\ reached_at' > 0) => pc' = "packages"]_vars

C7_Witness ==
    /\ reached_at = 3
    /\ probes = 3
    /\ sleeps = 2
    /\ pc = "build"

\* C8: for every manifest fingerprint, cache record and force-build flag,
\* build_forum decides Upgrade when the fingerprint differs from the record,
\* Build when it matches and START_BUILD is true, Skip otherwise, and Skip
\* invokes neither routine.  (The fingerprint is that of an existing
\* manifest.)
C8_BuildDecision ==
    (script = "production" /\ decision # "none") =>
        /\ package_hash = PackageHash(manifest)
        /\ package_hash # "" =>
              /\ package_hash # stored_hash => decision = "Upgrade"
              /\ (package_hash = stored_hash /\ START_BUILD = "true")
                    => decision = "Build"
              /\ (package_hash = stored_hash /\ START_BUILD # "true")
                    => decision = "Skip"
        /\ decision = "Skip" => (upgrade_runs = 0 /\ build_runs = 0)

C8_Witness ==
    /\ script = "production"
    /\ decision = "Build"
    /\ package_hash = "h1"
    /\ stored_hash = "h1"
    /\ build_runs = 1

C10_BuildFailureAborts ==
    (script = "production" /\ outcome \in {"fail", "timeout"}) =>
        /\ pc = "exited"
        /\ status \notin {0, Running}
        /\ failed = "build"
        /\ running = 0
        /\ done = SubSeq(Stages, 1, 5)

C10_Witness ==
    /\ script = "production"
    /\ outcome = "timeout"
    /\ decision = "Upgrade"
    /\ pc = "exited"
    /\ status = 1

\* C11: in the production and the DocumentDB entrypoint the cache record
\* install_hash.md5 changes only in the step in which the launch's upgrade
\* or build routine ended successfully, and then holds that launch's
\* manifest fingerprint; a launch whose routine failed or timed out, or
\* which skipped both routines, has the record it found.
C11_RecordOnlyAfterSuccess ==
    /\ [][install_hash' # install_hash =>
            /\ script \in Handoff
            /\ pc = "build"
            /\ outcome' = "ok"
            /\ upgrade_runs' + build_runs' = 1
            /\ install_hash' = PackageHash(manifest)]_vars
    /\ [](outcome \in {"fail", "timeout"} \/ decision = "Skip"
            => install_hash = stored_hash)

C11_Witness ==
    /\ script = "documentdb"
    /\ decision = "Build"
    /\ outcome = "ok"
    /\ stored_hash = "h1"
    /\ install_hash = "h2"
    /\ pc = "handoff"

\* C12: a run of fix_jquery_assets that finds a bundle already rewritten by
\* an earlier run (same directory, same payload, no build in between)
\* leaves that bundle exactly as it found it.
C12_PatchIdempotent ==
    [][(script = "production" /\ pc = "patch" /\ pc' = "preflight") =>
          /\ IsPatched(admin) => admin' = admin
          /\ IsPatched(client) => client' = client]_vars

\* C13: a launch in which the download of jQuery failed while the admin
\* bundle was one patched by an earlier launch has not been ended by the
\* patcher.
C13_FetchFailureNonFatal ==
    (script = "production" /\ patch_error = "download" /\ IsPatched(admin)) =>
        /\ failed # "patch"
        /\ pc # "exited"

\* C14: in every state of every launch the backup files hold content
\* without the injected payload.
C14_BackupIsPrePatch ==
    /\ ~HasPayload(admin_backup)
    /\ ~HasPayload(client_backup)

\* C15: whatever the checks of pre_start_validation find (no critical
\* directory being both missing and impossible to create), the count is
\* the number of failing checks, each failing check is reported once and
\* nothing else is, every missing critical directory has been created and
\* is not counted, and the gate passes exactly when the count is 0.
C15_PreflightCountsEveryFailure ==
    (pf_out # NoReport
        /\ \A i \in 1..Len(critical_dirs) : pf_in.dirs[critical_dirs[i]] # "uncreatable") =>
        LET failing ==
                {c \in {"config.json"} : ~pf_in.config}
                \cup {c \in {"nodebb"} : ~pf_in.nodebb}
                \cup {c \in {"node_modules"} : ~pf_in.node_modules}
                \cup {c \in DOMAIN pf_in.dirs : pf_in.dirs[c] = "unwritable"}
                \cup {c \in {"node"} : ~pf_in.runtime}
            reported == {pf_out.msgs[i] : i \in 1..Len(pf_out.msgs)}
        IN  /\ ~pf_out.aborted
            /\ pf_out.n = Cardinality(failing)
            /\ reported = failing
            /\ Len(pf_out.msgs) = Cardinality(failing)
            /\ pf_out.created = {c \in DOMAIN pf_in.dirs : pf_in.dirs[c] = "missing"}
            /\ PreflightPass(pf_out.n) <=> failing = {}

C15_Witness ==
    /\ pf_out.n = 2
    /\ pf_out.msgs = <<"node_modules", "logs">>
    /\ pf_in.dirs["build"] = "missing"
    /\ pf_out.created = {"build"}
    /\ pf_in.runtime

\* C16: a launch of production-entrypoint.sh in which a required database
\* variable is empty or unset has exited with status 1 in
\* validate_environment, naming the first such variable in the order host,
\* user, password, name; it completed no stage (no directory was checked,
\* created or repaired), made no probe, ran no install, upgrade or build
\* and started no managed process.
C16_MissingSettingStopsEverything ==
    (script = "production" /\ env_unset # {}) =>
        /\ pc = "exited"
        /\ status = 1
        /\ failed = "environment"
        /\ \E i \in 1..Len(required_vars) :
              /\ missing_var = required_vars[i]
              /\ required_vars[i] \in env_unset
              /\ \A j \in 1..(i - 1) : required_vars[j] \notin env_unset
        /\ done = <<>>
        /\ probes = 0 /\ sleeps = 0
        /\ decision = "none" /\ upgrade_runs = 0 /\ build_runs = 0
        /\ patch_error = "none"
        /\ running = 0 /\ launches = 0

C16_Witness ==
    /\ script = "production"
    /\ env_unset = {"NODEBB_DB_USER", "NODEBB_DB_NAME"}
    /\ missing_var = "NODEBB_DB_USER"
    /\ pc = "exited"
    /\ launch_no = 2

\* C17: in every entrypoint variant, a second generation of the
\* configuration from the same environment with NODEBB_SECRET supplied
\* writes the content the first one wrote.
C17_ConfigDeterministic ==
    (cfg_runs >= 2 /\ cfg_env.NODEBB_SECRET # "") => cfg_file = cfg_prev

\* C18: with no NODEBB_SECRET in the environment, the secret in the
\* configuration file after a later launch is the one the earlier launch
\* wrote.
C18_SecretGeneratedOnce ==
    (cfg_runs >= 2 /\ cfg_env.NODEBB_SECRET = "") =>
        cfg_file.secret = cfg_prev.secret

\* C19: in restart(), once aws has failed to spawn, or has exited with a
\* code other than 0, or the 5000 ms timer has fired (the command finished
\* or not), fallbackRestart has been called; the process exits only through
\* it, with status 0.
C19_FallbackOnErrorOrTimeout ==
    script = "meta" =>
        /\ child = "failed" => fallback_calls >= 1
        /\ child_code \notin {NoCode, 0} => fallback_calls >= 1
        /\ timer5 = "fired" => fallback_calls >= 1
        /\ pc = "exited" => (fallback_calls >= 1 /\ status = 0)

C19_Witness ==
    /\ script = "meta"
    /\ child = "exited"
    /\ child_code = 254
    /\ ~hasError
    /\ timer5 = "armed"
    /\ fallback_calls = 1
    /\ pc = "exited"

\* C20: in every entrypoint, a launch whose shell was sent a termination
\* signal before it exited (or handed over with exec) has run its cleanup
\* handler.
C20_SignalRunsCleanup ==
    signalled => cleanup_ran

\* the documents of the file that importData does not skip
Imported == {data[i] : i \in {j \in 1..Len(data) : ~Skipped(data[j])}}

Contents(c) == {c[i] : i \in 1..Len(c)}

\* C21: import-json.js run with --dry-run issues no insert, replace or
\* delete, and the collection stays as it was before the run.
C21_DryRunWritesNothing ==
    (tool = "import-json" /\ args.dryRun) => (coll = coll0 /\ writes = 0)

\* a dry run that completed on a file whose import would have changed the
\* collection
C21_Witness ==
    /\ tool = "import-json" /\ options.dryRun
    /\ tool_pc = "exited" /\ exit_code = 0
    /\ Imported # {}
    /\ ImportDocs(coll0, data, Len(data)) # coll0

\* C22: after a successful import in replace mode the collection holds
\* exactly the imported documents (whatever it held before was deleted).
C22_ReplaceLeavesOnlyImported ==
    (/\ tool = "import-json" /\ options.mode = "replace" /\ ~options.dryRun
     /\ tool_pc = "exited" /\ exit_code = 0)
        => Contents(coll) = Imported

\* C23: in insert mode, which is the mode when --mode is omitted, an import
\* of a document whose key is already in the collection fails and leaves
\* the collection as it was.
C23_InsertRejectsExistingKey ==
    (/\ tool = "import-json" /\ tool_pc = "exited"
     /\ args.mode \in {"", "insert"} /\ ~args.dryRun
     /\ thrown \notin {"validateArgs", "db.init", "loadJsonDataWithEnv"}
     /\ \E d \in Imported : Matching(coll0, d._key) # {})
        => (exit_code # 0 /\ coll = coll0)

\* C24: whenever import-json.js or list-collections.js ends after its
\* database connection was opened, db.close was called before the exit,
\* on the throwing paths too.
C24_ClosedBeforeExit ==
    (tool_pc = "exited" /\ opened) => db_client = "closed"


\* C25: restart_wrapper and the loop of install/docker/entrypoint.sh take
\* the same decision for every exit code of the managed process: 0 is a
\* clean restart, 200 a rebuild and restart, anything else ends the
\* supervisor with that code.  So a supervisor that has ended after an exit
\* of the managed process (and not on a failed build) ended on a code that
\* is neither 0 nor 200.
C25_SameClassification ==
    (/\ Supervised /\ pc = "exited" /\ history # <<>>
     /\ (rebuild_ok = <<>> \/ Last(rebuild_ok)))
        => (Classify(Last(history)) = "Fatal" /\ status = Last(history))


\* C26: in the DocumentDB entrypoint the upgrade routine is invoked exactly
\* when the manifest fingerprint differs from the stored record (an absent
\* record differs from every fingerprint), and a launch whose fingerprint
\* matches the record with START_BUILD not true invokes neither routine.
C26_UpgradeIffFingerprintDiffers ==
    (script = "documentdb" /\ decision # "none") =>
        /\ (upgrade_runs = 1) <=> (package_hash # stored_hash)
        /\ (package_hash = stored_hash /\ START_BUILD # "true")
              => (upgrade_runs = 0 /\ build_runs = 0)

\* a fingerprint that no manifest has
NeverMatching == "h9"

\* C27: in the production entrypoint, when install_hash.md5 does not exist
\* and a manifest does, the decision is Upgrade whatever START_BUILD is,
\* the same decision as for a record that matches no fingerprint.
C27_AbsentRecordUpgrades ==
    (script = "production" /\ decision # "none"
        /\ stored_hash = "" /\ package_hash # "") =>
        /\ decision = "Upgrade"
        /\ \A sb \in {"true", "false"} :
              BuildDecision(package_hash, stored_hash, sb)
                 = BuildDecision(package_hash, NeverMatching, sb)

C27_Witness ==
    /\ script = "production"
    /\ pc = "patch"
    /\ stored_hash = ""
    /\ package_hash = "h2"
    /\ START_BUILD = "false"
    /\ decision = "Upgrade"
    /\ upgrade_runs = 1


\* position of the first e in log, 0 if there is none
IndexOf(log, e) ==
    IF \E i \in 1..Len(log) : log[i] = e
    THEN CHOOSE i \in 1..Len(log) : log[i] = e /\ \A j \in 1..(i - 1) : log[j] # e
    ELSE 0

FallbackMessage == "echo: ./nodebb not executable, running build instead"

\* C28: when the fingerprint differs from the record and ./nodebb is not
\* executable, build_forum runs the build routine and not the upgrade
\* routine, has echoed the fallback message before running it, and after
\* its success the record holds the new fingerprint.
C28_UpgradeFallsBackToBuild ==
    (script = "production" /\ decision = "Upgrade" /\ ~nodebb_x) =>
        /\ upgrade_runs = 0
        /\ build_runs = 1
        /\ IndexOf(build_log, FallbackMessage) > 0
        /\ IndexOf(build_log, FallbackMessage) < IndexOf(build_log, "run: build")
        /\ outcome = "ok" => install_hash = package_hash

C28_Witness ==
    /\ script = "production"
    /\ decision = "Upgrade"
    /\ ~nodebb_x
    /\ outcome = "ok"
    /\ stored_hash = "h1"
    /\ install_hash = "h2"
    /\ pc = "patch"

\* C29: a launch whose build or upgrade routine succeeded has the
\* cache-busting marker when its build stage has ended, and its build
\* stage did not abort it.
C29_MarkerAfterBuild ==
    (script = "production" /\ outcome = "ok") =>
        (cache_buster /\ failed # "build")


\* call i of check_directory has been made
Checked(i) == i < ck_i \/ (i = ck_i /\ ck_status # Running)

\* C30: each directory handed to check_directory that is missing is
\* created; one that is not writable gets one chown/chmod repair, never a
\* second; after the call has returned the directory exists and is
\* writable; otherwise the shell has exited non-zero at that call, and
\* neither a later call nor a later stage has run.
C30_DirectoryCheck ==
    (ck_script # "none") =>
        /\ \A i \in 1..Len(ck_dirs) :
              /\ ck_repairs[i] <= 1
              /\ (Checked(i) /\ ck_dirs[i].fs = "unwritable") => ck_repairs[i] = 1
              /\ (Checked(i) /\ ck_dirs[i].fs = "absent" /\ ck_dirs[i].mkdir # "fail")
                    => ck_fs[i] # "absent"
              /\ i < ck_i => ck_fs[i] = "writable"
              /\ ~Checked(i) => (ck_fs[i] = ck_dirs[i].fs /\ ck_repairs[i] = 0)
        /\ ck_status # Running =>
              /\ ck_status # 0
              /\ ck_stage = "directories"
              /\ ck_fs[ck_i] # "writable"
        /\ ck_stage = "next" =>
              \A i \in 1..Len(ck_dirs) : ck_fs[i] = "writable"

\* the uploads directory was missing and is created, the logs directory is
\* not writable and the repair does not help: the launch ends there
C30_Witness ==
    /\ ck_script = "production"
    /\ ck_dirs[2].fs = "absent" /\ ck_fs[2] = "writable"
    /\ ck_dirs[3].fs = "unwritable" /\ ck_repairs[3] = 1
    /\ ck_fs[3] = "unwritable"
    /\ ck_status = 1
    /\ ck_stage = "directories"


C32_NoFallbackAfterSuccess ==
    [][(script = "meta" /\ child_code = 0 /\ timer5 = "armed"
            /\ fallback_calls = 0)
          => (fallback_calls' = 0 /\ pc' # "exited")]_vars


\* C34: within one restart() call fallbackRestart is called at most once,
\* in whatever order the error event, the exit event and the 5000 ms
\* timer come.
C34_FallbackAtMostOnce ==
    script = "meta" => fallback_calls <= 1


\* C33: every call of Meta.restart publishes one meta:restart message that
\* carries the caller's hostname, and restarts the caller; a process
\* restarts on a received message exactly when it is a primary and the
\* message names another host; handling a message publishes nothing.
C33_RestartOverPubsub ==
    (ps_calls > 0) =>
        /\ Len(ps_published) = ps_calls
        /\ \A i \in 1..Len(ps_published) :
              ps_published[i].hostname = ps_host[ps_published[i].from]
        /\ \A p \in Procs :
              /\ ps_restarts[p] = ps_local[p] + ps_differing[p]
              /\ ~ps_primary[p] => (ps_differing[p] = 0 /\ ps_inbox[p] = <<>>)
              /\ ps_differing[p] + Len(ps_inbox[p]) <= ps_calls
              /\ (ps_inbox[p] = <<>> /\ ps_primary[p]) =>
                    ps_differing[p] =
                       Cardinality({i \in 1..Len(ps_published) :
                                       ps_published[i].hostname # ps_host[p]})

\* process 1 called Meta.restart; primary 2 on another host restarted on
\* the message, primary 3 on the caller's host did not
C33_Witness ==
    /\ ps_calls = 1
    /\ ps_local[1] = 1
    /\ ps_primary[2] /\ ps_host[2] # ps_host[1] /\ ps_restarts[2] = 1
    /\ ps_primary[3] /\ ps_host[3] = ps_host[1] /\ ps_restarts[3] = 0
    /\ ps_inbox = [p \in Procs |-> <<>>]
    /\ Len(ps_published) = 1


\* C35: every restart() call leads to the process exiting with code 0,
\* whether aws fails to spawn, exits non-zero, exits 0 or never exits; and
\* under restart_wrapper that exit leads to the process being launched
\* again, the wrapper taking it for a clean restart and not exiting.
C35_RestartAlwaysExitsZero ==
    /\ (script = "meta" /\ pc = "restarting")
          ~> (script = "meta" /\ pc = "exited" /\ status = 0)
    /\ (script = "meta" /\ pc = "exited" /\ Len(history) < MaxExits)
          ~> (script = "wrapper" /\ pc = "wait" /\ history # <<>>
                /\ Last(history) = 0)
    /\ [][(script = "meta" /\ pc = "exited") =>
             (pc' = "case" /\ EXIT_CODE' = 0 /\ status' = Running)]_vars
    /\ [][(script = "wrapper" /\ pc = "case" /\ EXIT_CODE = 0) =>
             (pc' = "sleep" /\ status' = Running /\ rebuilds' = rebuilds)]_vars

\* the command exited 0, the process left through the fallback all the
\* same and the wrapper has launched it a second time
C35_Witness ==
    /\ script = "wrapper"
    /\ pc = "wait"
    /\ launches = 2
    /\ history = <<0>>
    /\ child_code = 0
    /\ ~hasError
    /\ fallback_calls = 1


\* C36: in production-entrypoint.sh the cleanup trap is set only once all
\* eight stages, the preflight gate last, have completed, and is in place
\* only from then until the managed process takes the shell's place; no
\* state in which a stage is still to run has it; and a launch in which the
\* handler ran has exited with status 0.
C36_TrapOnlyBeforeHandoff ==
    /\ trap_installed =>
          /\ script = "production"
          /\ done = Stages
          /\ pc \in {"start", "exited"}
          /\ launches = 0
    /\ (script = "production" /\ pc \in {Stages[i] : i \in 1..Len(Stages)})
          => ~trap_installed
    /\ cleanup_ran => (pc = "exited" /\ status = 0 /\ done = Stages)

\* the signal arrives between the trap and the exec
C36_Witness ==
    /\ script = "production"
    /\ trap_installed
    /\ signalled
    /\ cleanup_ran
    /\ status = 0
    /\ pc = "exited"
    /\ validation_errors = 0


\* C37: in the loop of install/docker/entrypoint.sh every launch of the
\* managed process, the first and each one after an exit code 0, comes
\* directly after a build of its own that succeeded; a build that failed
\* has ended the script with a non-zero status and no launch followed it.
C37_BuildBeforeEveryLaunch ==
    /\ [][(script = "loop" /\ launches' = launches + 1) =>
             /\ pc = "launch"
             /\ rebuilds = launches + 1
             /\ rebuild_ok # <<>>
             /\ Last(rebuild_ok)]_vars
    /\ []((script = "loop" /\ rebuild_ok # <<>> /\ ~Last(rebuild_ok)) =>
             /\ pc = "exited"
             /\ status \notin {0, Running}
             /\ running = 0
             /\ launches = Len(rebuild_ok) - 1)

C37_Witness ==
    /\ script = "loop"
    /\ pc = "wait"
    /\ launches = 2
    /\ history = <<0>>
    /\ rebuild_ok = <<TRUE, TRUE>>


\* the launch took the fallback of lines 310-316
TookFallback ==
    script = "production" /\ decision = "Upgrade" /\ ~nodebb_x /\ build_runs = 1

\* C38 as stated: a launch that took the upgrade-unavailable fallback never
\* starts the managed process, and has persisted the new fingerprint.
C38_AsStated ==
    TookFallback =>
        /\ launches = 0
        /\ pc \notin {"trap", "start", "handoff"}
        /\ install_hash = package_hash

\* C38 amended: such a launch never starts the managed process (if it gets
\* as far as the preflight gate, the gate counts ./nodebb as an error and
\* ends it); when its fallback build succeeded the new fingerprint has
\* been persisted, when the build failed or timed out the record is the
\* one the launch found.
C38_FallbackNeverStarts ==
    TookFallback =>
        /\ launches = 0
        /\ pc \notin {"trap", "start", "handoff"}
        /\ done # Stages
        /\ failed = "preflight" => validation_errors >= 1
        /\ outcome = "ok" =>
              (install_hash = package_hash /\ install_hash # stored_hash)
        /\ outcome # "ok" => install_hash = stored_hash

C38_Witness ==
    /\ TookFallback
    /\ outcome = "ok"
    /\ pc = "exited"
    /\ failed = "preflight"
    /\ validation_errors = 1
    /\ stored_hash = "h1"
    /\ install_hash = "h2"


\* C39: import-json.js has exited with code 1 exactly when validateArgs,
\* db.init, loadJsonDataWithEnv or importData threw, and with code 0
\* exactly when importData returned; no run in which something threw has
\* exit code 0.
C39_ExitCodeTellsFailure ==
    (tool = "import-json" /\ tool_pc = "exited") =>
        /\ exit_code \in {0, 1}
        /\ exit_code = 1 <=>
              thrown \in {"validateArgs", "db.init", "loadJsonDataWithEnv",
                          "importData"}
        /\ exit_code = 0 <=> thrown = "none"
        /\ exit_code = 0 =>
              /\ opened
              /\ options.dryRun \/ writes = Processed(data, Len(data))

\* the import threw half way and the run ended with code 1
C39_Witness ==
    /\ tool = "import-json"
    /\ tool_pc = "exited"
    /\ thrown = "importData"
    /\ writes = 1
    /\ Len(data) = 2
    /\ exit_code = 1

====
